---- MODULE Spec2Model ----
(***************************************************************************)
(* PhishSpector: the background worker (src/background.js) and the click   *)
(* gate of the content script (src/content.js).                            *)
(*                                                                         *)
(* JavaScript values are modelled as follows.                              *)
(*   - a string the code searches in is a sequence of one-character        *)
(*     strings, so that toLowerCase and includes are computed;             *)
(*   - null is the string "null"; a number that may be NaN, null or        *)
(*     undefined is a record tagged with its type;                         *)
(*   - times are counted in units of 5 minutes (1 unit = 300000 ms).       *)
(***************************************************************************)
EXTENDS Integers, Sequences, FiniteSets, TLC

VARIABLES
    \* ---- parseAuthResults driver ----
    authWords,      \* the words the Authentication-Results input is made of
    authHeader,     \* the argument of parseAuthResults
    parsePc,        \* "start" before the call of parseAuthResults, "done" after
    parsedOut,      \* what parseAuthResults returned
    \* ---- chrome.storage.local and the trusted-sender ledger ----
    trustedSenders, \* storage key trustedSenders: domain -> count
    ledger0,        \* the value of trustedSenders at start (history)
    rsCalls,        \* the addTrustedSenderDomain calls: pc, domain, map to write
    rsFinished,     \* per domain, the calls whose storage.set has been done (history)
    boostDomain,    \* the argument of the last getTrustedSenderBoost call
    boostOut,       \* what it resolved to (-1 before any call)
    \* ---- the clock and the in-memory caches ----
    now,            \* Date.now()
    HEADER_CACHE,   \* Map: key -> {ts, data, ttl}
    QUERY_CACHE,    \* Map: key -> {ts, data, ttl}
    lastSet,        \* per key of HEADER_CACHE, the arguments and time of the last cacheSet (history)
    getOut,         \* the last cacheGet on HEADER_CACHE: key, time, result
    \* ---- the onMessage handlers get_headers and get_scores ----
    mail,           \* the message the row shows, as the Gmail API returns it
    mlBackend,      \* what POST /predict answers
    payload,        \* msg.payload of the requests: the row's localScore
    reqs,           \* the handler invocations: pc, locals, response
    \* ---- the ensemble of get_scores on its own ----
    ensIn,          \* localScore, ml_score and headerTrust at line 385
    ensPc,          \* "start" before the ensemble is computed, "done" after
    ensOut,         \* the response built at 397-403
    \* ---- the link protection of the content script ----
    link,           \* the anchor: its href, whether it sits in a mail row, the row's sender
    emailRiskScore, \* the closure variable of protectSuspiciousLinks for the link
    gatePc,         \* "new", "protected", then "navigated", or "popup" and "shown"
    clickOut,       \* what the click handler computed and decided
    popup,          \* the quick assessment the popup displays
    \* ---- the local heuristic score of a row ----
    lexIn,          \* the argument of computeLocalScore: the texts of the row
    lexOut,         \* the scores the successive calls on that argument returned
    \* ---- the remote services ----
    hung,           \* the remote calls that never return in this run
    storageUp,      \* whether chrome.storage.local.get hands a result object to its callback
    \* ---- the feedback log ----
    phishFeedback,  \* storage key phishFeedback: the entries, each named by its feedback message
    fbCalls         \* the feedback messages: pc of the log update, array to write

parseVars == <<authWords, authHeader, parsePc, parsedOut>>
ledgerVars == <<trustedSenders, ledger0, rsCalls, rsFinished, boostDomain, boostOut>>

cacheVars == <<now, HEADER_CACHE, QUERY_CACHE, lastSet, getOut>>

handlerVars == <<mail, mlBackend, payload, reqs>>
ensVars == <<ensIn, ensPc, ensOut>>
gateVars == <<link, emailRiskScore, gatePc, clickOut, popup>>
lexVars == <<lexIn, lexOut>>
hangVars == <<hung, storageUp>>
fbVars == <<phishFeedback, fbCalls>>

vars == <<authWords, authHeader, parsePc, parsedOut,
          trustedSenders, ledger0, rsCalls, rsFinished, boostDomain, boostOut,
          now, HEADER_CACHE, QUERY_CACHE, lastSet, getOut,
          mail, mlBackend, payload, reqs,
          ensIn, ensPc, ensOut,
          link, emailRiskScore, gatePc, clickOut, popup,
          lexIn, lexOut,
          hung, storageUp,
          phishFeedback, fbCalls>>

Min(a, b) == IF a < b THEN a ELSE b
Max(a, b) == IF a > b THEN a ELSE b

(***************************************************************************)
(* Strings                                                                 *)
(***************************************************************************)

\* String.prototype.toLowerCase on one character
LowerChar(c) ==
    CASE c = "A" -> "a" [] c = "B" -> "b" [] c = "C" -> "c" [] c = "D" -> "d"
      [] c = "E" -> "e" [] c = "F" -> "f" [] c = "G" -> "g" [] c = "H" -> "h"
      [] c = "I" -> "i" [] c = "J" -> "j" [] c = "K" -> "k" [] c = "L" -> "l"
      [] c = "M" -> "m" [] c = "N" -> "n" [] c = "O" -> "o" [] c = "P" -> "p"
      [] c = "Q" -> "q" [] c = "R" -> "r" [] c = "S" -> "s" [] c = "T" -> "t"
      [] c = "U" -> "u" [] c = "V" -> "v" [] c = "W" -> "w" [] c = "X" -> "x"
      [] c = "Y" -> "y" [] c = "Z" -> "z"
      [] OTHER -> c

toLowerCase(s) == [i \in 1..Len(s) |-> LowerChar(s[i])]

\* String.prototype.includes: t occurs in s as a contiguous substring
includes(s, t) ==
    \E i \in 0..(Len(s) - Len(t)) : SubSeq(s, i + 1, i + Len(t)) = t

TokSpfPass   == <<"s","p","f","=","p","a","s","s">>
TokSpfFail   == <<"s","p","f","=","f","a","i","l">>
TokDkimPass  == <<"d","k","i","m","=","p","a","s","s">>
TokDkimFail  == <<"d","k","i","m","=","f","a","i","l">>
TokDmarcPass == <<"d","m","a","r","c","=","p","a","s","s">>
TokDmarcFail == <<"d","m","a","r","c","=","f","a","i","l">>

(***************************************************************************)
(* parseAuthResults (background.js 84-93)                                  *)
(***************************************************************************)

JsString(chars) == [kind |-> "string", chars |-> chars]
JsNull == [kind |-> "null", chars |-> <<>>]
JsUndefined == [kind |-> "undefined", chars |-> <<>>]
JsNumber == [kind |-> "number", chars |-> <<>>]

\* parseAuthResults without the lower-casing of line 86
parseAuthResultsCaseSensitive(authHeader_) ==
    IF authHeader_.kind # "string" \/ authHeader_.chars = <<>>
    THEN [spf |-> "null", dkim |-> "null", dmarc |-> "null", raw |-> <<>>]
    ELSE LET lower == authHeader_.chars IN
         [spf   |-> IF includes(lower, TokSpfPass) THEN "pass"
                    ELSE IF includes(lower, TokSpfFail) THEN "fail" ELSE "null",
          dkim  |-> IF includes(lower, TokDkimPass) THEN "pass"
                    ELSE IF includes(lower, TokDkimFail) THEN "fail" ELSE "null",
          dmarc |-> IF includes(lower, TokDmarcPass) THEN "pass"
                    ELSE IF includes(lower, TokDmarcFail) THEN "fail" ELSE "null",
          raw   |-> authHeader_.chars]

parseAuthResults(authHeader_) ==
    IF authHeader_.kind # "string" \/ authHeader_.chars = <<>>
    THEN [spf |-> "null", dkim |-> "null", dmarc |-> "null", raw |-> <<>>]
    ELSE LET lower == toLowerCase(authHeader_.chars) IN
         [spf   |-> IF includes(lower, TokSpfPass) THEN "pass"
                    ELSE IF includes(lower, TokSpfFail) THEN "fail" ELSE "null",
          dkim  |-> IF includes(lower, TokDkimPass) THEN "pass"
                    ELSE IF includes(lower, TokDkimFail) THEN "fail" ELSE "null",
          dmarc |-> IF includes(lower, TokDmarcPass) THEN "pass"
                    ELSE IF includes(lower, TokDmarcFail) THEN "fail" ELSE "null",
          raw   |-> authHeader_.chars]

(***************************************************************************)
(* Inputs of parseAuthResults: up to MaxWords words of AuthVocab joined    *)
(* by single spaces, and the non-string arguments.  Each word carries the  *)
(* tokens that occur in it when case is ignored; no token contains a       *)
(* space, so the tokens of a header are those of its words.                *)
(***************************************************************************)
MaxWords == 2

AuthVocab == <<
    [chars |-> <<"s","p","f","=","p","a","s","s">>,             tokens |-> {<<"spf", "pass">>}],
    [chars |-> <<"S","P","F","=","P","a","s","s">>,             tokens |-> {<<"spf", "pass">>}],
    [chars |-> <<"s","p","f","=","f","a","i","l">>,             tokens |-> {<<"spf", "fail">>}],
    [chars |-> <<"d","k","i","m","=","p","a","s","s">>,         tokens |-> {<<"dkim", "pass">>}],
    [chars |-> <<"d","k","i","m","=","f","a","i","l">>,         tokens |-> {<<"dkim", "fail">>}],
    [chars |-> <<"D","K","I","M","=","F","A","I","L">>,         tokens |-> {<<"dkim", "fail">>}],
    [chars |-> <<"d","m","a","r","c","=","p","a","s","s">>,     tokens |-> {<<"dmarc", "pass">>}],
    [chars |-> <<"d","m","a","r","c","=","f","a","i","l","e","d">>, tokens |-> {<<"dmarc", "fail">>}],
    [chars |-> <<"s","p","f","=">>,                             tokens |-> {}],
    [chars |-> <<"p","a","s","s">>,                             tokens |-> {}],
    [chars |-> <<"d","k","i","m","=","n","o","n","e">>,         tokens |-> {}] >>

WordLists == UNION {[1..n -> 1..Len(AuthVocab)] : n \in 0..MaxWords}

RECURSIVE JoinWords(_)
JoinWords(ws) ==
    IF Len(ws) = 0 THEN <<>>
    ELSE IF Len(ws) = 1 THEN AuthVocab[ws[1]].chars
    ELSE AuthVocab[ws[1]].chars \o <<" ">> \o JoinWords(Tail(ws))

NotParsed == [spf |-> "none", dkim |-> "none", dmarc |-> "none", raw |-> <<>>]

NonStringInputs == {JsNull, JsUndefined, JsNumber}

ParseStart ==
    /\ authWords \in WordLists
    /\ authHeader \in {JsString(JoinWords(authWords))}
                      \cup (IF authWords = <<>> THEN NonStringInputs ELSE {})
    /\ parsePc = "start"
    /\ parsedOut = NotParsed

\* one call parseAuthResults(authHeader)
ParseCall ==
    /\ parsePc = "start"
    /\ parsePc' = "done"
    /\ parsedOut' = parseAuthResults(authHeader)
    /\ UNCHANGED <<authWords, authHeader>>

\* the parse driver at rest, in the specifications that do not use it
ParseIdle ==
    /\ authWords = <<>>
    /\ authHeader = JsString(<<>>)
    /\ parsePc = "start"
    /\ parsedOut = NotParsed

(***************************************************************************)
(* Trusted sender history (background.js 190-219)                          *)
(*                                                                         *)
(* The stored object maps a domain to {count, last}; last is written and   *)
(* never read, and is left out.  A domain without a record is not in the   *)
(* DOMAIN of the map.                                                      *)
(***************************************************************************)
Domains == {"a.example", "b.example"}

\* how many addTrustedSenderDomain calls one run makes
MaxCalls == 3
\* the largest count a stored record starts with
MaxCount == 5

CallIds == 1..MaxCalls

TRUST_BOOST_FROM_HISTORY == 25

Count(map, d) == IF d \in DOMAIN map THEN map[d] ELSE 0

\* the body of the storage.get callback of addTrustedSenderDomain:
\* the map it hands to storage.set
addTrustedSenderDomainMap(map, domain) ==
    [d \in DOMAIN map \cup {domain} |->
        IF d = domain THEN Count(map, domain) + 1 ELSE map[d]]

\* getTrustedSenderBoost without the cap of line 215
getTrustedSenderBoostUncapped(map, domain) ==
    IF domain = "null" THEN 0
    ELSE IF domain \notin DOMAIN map THEN 0
    ELSE map[domain] * 5

\* whether the promise of getTrustedSenderBoost(domain) is resolved: at once
\* without a domain (209); otherwise by the callback of storage.get, which
\* reads res.trustedSenders (211) and throws before any resolve when it is
\* handed no result object
BoostResolves(domain) == domain = "null" \/ storageUp

\* what getTrustedSenderBoost(domain) resolves to when storage holds map
getTrustedSenderBoostValue(map, domain) ==
    IF domain = "null" THEN 0
    ELSE IF domain \notin DOMAIN map THEN 0
    ELSE Min(TRUST_BOOST_FROM_HISTORY, map[domain] * 5)

IdleCall == [pc |-> "idle", domain |-> "null", map |-> <<>>]

\* the stored maps a run starts from: no record, or one domain with a record
Ledgers == {<<>>} \cup UNION {[{d} -> 1..MaxCount] : d \in Domains}

LedgerStart ==
    /\ trustedSenders \in Ledgers
    /\ ledger0 = trustedSenders
    /\ rsCalls = [c \in CallIds |-> IdleCall]
    /\ rsFinished = [d \in Domains |-> 0]
    /\ boostDomain = "null"
    /\ boostOut = -1

\* addTrustedSenderDomain(domain) up to the storage.get request (193-195);
\* the calls are numbered in the order they are made
RecordSafeStart(c, d) ==
    /\ rsCalls[c].pc = "idle"
    /\ \A b \in CallIds : b < c => rsCalls[b].pc # "idle"
    /\ rsCalls' = [rsCalls EXCEPT ![c] =
            IF d = "null" THEN [pc |-> "done", domain |-> d, map |-> <<>>]
            ELSE [pc |-> "get", domain |-> d, map |-> <<>>]]
    /\ UNCHANGED <<trustedSenders, ledger0, rsFinished, boostDomain, boostOut>>

\* the storage.get callback: reads the stored map, increments, requests the
\* set (195-201); handed no result object, it throws at 196
RecordSafeGet(c) ==
    /\ rsCalls[c].pc = "get"
    /\ rsCalls' = [rsCalls EXCEPT ![c] =
            IF storageUp
            THEN [pc |-> "set", domain |-> rsCalls[c].domain,
                  map |-> addTrustedSenderDomainMap(trustedSenders, rsCalls[c].domain)]
            ELSE [pc |-> "thrown", domain |-> "null", map |-> <<>>]]
    /\ UNCHANGED <<trustedSenders, ledger0, rsFinished, boostDomain, boostOut>>

\* storage.set writes the whole map (201-203)
RecordSafeSet(c) ==
    /\ rsCalls[c].pc = "set"
    /\ trustedSenders' = rsCalls[c].map
    /\ rsCalls' = [rsCalls EXCEPT ![c] = [pc |-> "done", domain |-> "null", map |-> <<>>]]
    /\ rsFinished' = [rsFinished EXCEPT ![rsCalls[c].domain] = @ + 1]
    /\ UNCHANGED <<ledger0, boostDomain, boostOut>>

\* getTrustedSenderBoost(domain) (207-219)
BoostLookup(d) ==
    /\ boostDomain' = d
    /\ boostOut' = getTrustedSenderBoostValue(trustedSenders, d)
    /\ UNCHANGED <<trustedSenders, ledger0, rsCalls, rsFinished>>

\* the ledger at rest, in the specifications that do not use its calls
LedgerIdle ==
    /\ rsCalls = [c \in CallIds |-> IdleCall]
    /\ rsFinished = [d \in Domains |-> 0]
    /\ boostDomain = "null"
    /\ boostOut = -1

(***************************************************************************)
(* The feedback log (background.js 409-419)                                *)
(*                                                                         *)
(* An entry {ts, label, detail} is named by the feedback message that      *)
(* pushed it.  The best-effort POST to the backend (429-435) changes no    *)
(* state of the worker and is left out.                                    *)
(***************************************************************************)
IdleFeedback == [pc |-> "idle", arr |-> <<>>]

FbIdle ==
    /\ phishFeedback = <<>>
    /\ fbCalls = [c \in CallIds |-> IdleFeedback]

\* the storage.get callback: reads the stored array, pushes the entry and
\* requests the set (413-416); handed no result object, it throws at 414
FeedbackGet(c) ==
    /\ fbCalls[c].pc = "get"
    /\ fbCalls' = [fbCalls EXCEPT ![c] =
            IF storageUp THEN [pc |-> "set", arr |-> Append(phishFeedback, c)]
            ELSE [pc |-> "thrown", arr |-> <<>>]]
    /\ UNCHANGED phishFeedback

\* storage.set writes the whole array (416-418)
FeedbackSet(c) ==
    /\ fbCalls[c].pc = "set"
    /\ phishFeedback' = fbCalls[c].arr
    /\ fbCalls' = [fbCalls EXCEPT ![c] = [pc |-> "done", arr |-> <<>>]]

(***************************************************************************)
(* Caching helpers (background.js 149-161)                                 *)
(*                                                                         *)
(* Times are counted in units of 5 minutes (300000 ms), which both TTLs    *)
(* are multiples of.                                                       *)
(***************************************************************************)
\* 1000 * 60 * 10 ms
CACHE_TTL_MS == 2
\* 1000 * 60 * 5 ms
QUERY_CACHE_TTL_MS == 1

\* the last instant of a run
MaxNow == 3
\* the largest ttl given to cacheSet by the cache driver
MaxTtl == 2

\* cacheMap.set(key, {ts: Date.now(), data, ttl})
cacheSet(cacheMap, key, data, ttl) ==
    [k \in DOMAIN cacheMap \cup {key} |->
        IF k = key THEN [ts |-> now, data |-> data, ttl |-> ttl] ELSE cacheMap[k]]

\* v.ttl || CACHE_TTL_MS
EffectiveTtl(v) == IF v.ttl # 0 THEN v.ttl ELSE CACHE_TTL_MS

\* Expired with >= for >: an entry expires when its age reaches the ttl
ExpiredAtTtl(v) == (now - v.ts) >= EffectiveTtl(v)

\* (Date.now() - v.ts) > (v.ttl || CACHE_TTL_MS)
Expired(v) == (now - v.ts) > EffectiveTtl(v)

\* what cacheGet(cacheMap, key) returns: null, or the data of the entry
cacheGet(cacheMap, key) ==
    IF key \notin DOMAIN cacheMap THEN [hit |-> FALSE]
    ELSE IF Expired(cacheMap[key]) THEN [hit |-> FALSE]
    ELSE [hit |-> TRUE, data |-> cacheMap[key].data]

\* the map cacheGet(cacheMap, key) leaves: an expired entry is deleted
cacheGetMap(cacheMap, key) ==
    IF key \in DOMAIN cacheMap /\ Expired(cacheMap[key])
    THEN [k \in DOMAIN cacheMap \ {key} |-> cacheMap[k]]
    ELSE cacheMap

CacheKeys == {"k1", "k2"}
CacheData == {"v1", "v2"}

NoGet == [key |-> "none", at |-> 0, result |-> [hit |-> FALSE]]

CacheIdle ==
    /\ now = 0
    /\ HEADER_CACHE = <<>>
    /\ QUERY_CACHE = <<>>
    /\ lastSet = <<>>
    /\ getOut = NoGet

\* time passes
Tick ==
    /\ now < MaxNow
    /\ now' = now + 1
    /\ UNCHANGED <<HEADER_CACHE, QUERY_CACHE, lastSet, getOut>>

\* cacheSet(HEADER_CACHE, key, data, ttl)
CacheSetStep(key, data, ttl) ==
    /\ HEADER_CACHE' = cacheSet(HEADER_CACHE, key, data, ttl)
    /\ lastSet' = [k \in DOMAIN lastSet \cup {key} |->
                      IF k = key THEN [ts |-> now, data |-> data, ttl |-> ttl]
                      ELSE lastSet[k]]
    /\ UNCHANGED <<now, QUERY_CACHE, getOut>>

\* cacheGet(HEADER_CACHE, key)
CacheGetStep(key) ==
    /\ getOut' = [key |-> key, at |-> now, result |-> cacheGet(HEADER_CACHE, key)]
    /\ HEADER_CACHE' = cacheGetMap(HEADER_CACHE, key)
    /\ UNCHANGED <<now, QUERY_CACHE, lastSet>>

(***************************************************************************)
(* Header trust (background.js 24-32, 96-108, 279-303, 360-372)            *)
(***************************************************************************)
HEADER_TRUST_POINTS ==
    [spf_pass |-> 40, dkim_pass |-> 40, dmarc_pass |-> 20,
     spf_fail |-> -40, dkim_fail |-> -40, dmarc_fail |-> -20]

MAX_SCORE == 100

\* the sum of headerTrustFromParsed before its clamp
TrustPoints(parsed) ==
    50
    + (IF parsed.spf = "pass" THEN HEADER_TRUST_POINTS.spf_pass ELSE 0)
    + (IF parsed.spf = "fail" THEN HEADER_TRUST_POINTS.spf_fail ELSE 0)
    + (IF parsed.dkim = "pass" THEN HEADER_TRUST_POINTS.dkim_pass ELSE 0)
    + (IF parsed.dkim = "fail" THEN HEADER_TRUST_POINTS.dkim_fail ELSE 0)
    + (IF parsed.dmarc = "pass" THEN HEADER_TRUST_POINTS.dmarc_pass ELSE 0)
    + (IF parsed.dmarc = "fail" THEN HEADER_TRUST_POINTS.dmarc_fail ELSE 0)

\* headerTrustFromParsed without the clamp of line 106
headerTrustFromParsedNoClamp(parsed) == TrustPoints(parsed)

headerTrustFromParsed(parsed) == Max(0, Min(100, TrustPoints(parsed)))

\* The message: the words of its Authentication-Results header (one word per
\* protocol at most), the domains domainFromAddress finds in its From and
\* Return-Path headers ("null" when it finds none), and which of the relay
\* fingerprint headers the metadata request returns.
MailAuthWords ==
    {<<>>} \cup
    {w \in UNION {[1..n -> {1, 3, 4, 5, 7, 8}] : n \in 1..3} :
        \A i, j \in DOMAIN w : i < j => (w[i] - 1) \div 3 < (w[j] - 1) \div 3}

Mails ==
    [auth : MailAuthWords,
     displayDomain : {"a.example", "null"},
     returnPathDomain : {"a.example", "b.example", "null"},
     relayHeaders : {{}, {"Delivered-To", "X-Google-Smtp-Source"}}]

\* headers['Authentication-Results'] || ''
AuthRaw(m) == JsString(JoinWords(m.auth))

\* domainFromAddress(returnPath) || domainFromAddress(fromEmail)
EnvDomain(m) ==
    IF m.returnPathDomain # "null" THEN m.returnPathDomain ELSE m.displayDomain

\* envDomain && displayDomain && envDomain !== displayDomain
EnvelopeMismatch(m) ==
    /\ EnvDomain(m) # "null"
    /\ m.displayDomain # "null"
    /\ EnvDomain(m) # m.displayDomain

\* detectGoogleRelay(headers): one of the fingerprint headers is present
detectGoogleRelay(m) == m.relayHeaders # {}

\* displayDomain || envDomain
SenderDomain(m) ==
    IF m.displayDomain # "null" THEN m.displayDomain ELSE EnvDomain(m)

\* get_headers, after the fetch: the successive values of trust (279, 291, 296)
GetHeadersTrustSteps(m) ==
    LET t0 == headerTrustFromParsed(parseAuthResults(AuthRaw(m)))
        t1 == IF EnvelopeMismatch(m) THEN Max(0, t0 - 30) ELSE t0
        t2 == IF detectGoogleRelay(m) THEN Min(100, t1 + 20) ELSE t1
    IN  <<t0, t1, t2>>

\* get_scores, after the fetch: the successive values of headerTrust (362, 364, 368)
GetScoresTrustSteps(m) ==
    LET t0 == headerTrustFromParsed(parseAuthResults(AuthRaw(m)))
        t1 == IF detectGoogleRelay(m) THEN Min(100, t0 + 20) ELSE t0
        t2 == IF EnvelopeMismatch(m) THEN Max(0, t1 - 30) ELSE t1
    IN  <<t0, t1, t2>>

\* if (historyBoost) trust = Math.min(100, trust + historyBoost)
AddHistoryBoost(trust, historyBoost) ==
    IF historyBoost # 0 THEN Min(100, trust + historyBoost) ELSE trust

(***************************************************************************)
(* Ensemble (background.js 13-19, 326, 337-339, 385-403)                   *)
(*                                                                         *)
(* A JavaScript number that may be NaN is [t |-> "number", v |-> n] or     *)
(* [t |-> "nan"]; null is [t |-> "null"].  The weights are in hundredths.  *)
(* For integer scores Math.round of the floating-point sum equals the      *)
(* exact sum rounded half up.                                              *)
(***************************************************************************)
WEIGHTS == [local |-> 25, ml |-> 50, header |-> 20, history |-> 5]

Num(n) == [t |-> "number", v |-> n]
NaN == [t |-> "nan"]
Null == [t |-> "null"]
Undefined == [t |-> "undefined"]
\* a non-empty string: one parseFloat reads the number v from, or one it does not
NumString(n) == [t |-> "string", numeric |-> TRUE, v |-> n]
BadString == [t |-> "string", numeric |-> FALSE]

\* the truthiness of a value of the response body
Truthy(x) == (x.t = "number" /\ x.v # 0) \/ x.t = "string"

\* json.ml_score || json.score || null, then parseFloat of a string (338-339)
MlScoreOfJson(json) ==
    LET picked == IF Truthy(json.ml_score) THEN json.ml_score
                  ELSE IF Truthy(json.score) THEN json.score
                  ELSE Null
    IN  IF picked.t = "string"
        THEN (IF picked.numeric THEN Num(picked.v) ELSE NaN)
        ELSE picked

\* ml_score after the try/catch around the backend call (329-344)
MlScoreOf(backend) ==
    IF backend.kind = "json" THEN MlScoreOfJson(backend.json) ELSE Null

\* (typeof payload.localScore === "number") ? payload.localScore : (payload.local || 50)
LocalScoreOf(pl) == IF pl.localScore.t = "number" THEN pl.localScore.v ELSE 50

\* a stand-in of 50 for a missing ml_score, in place of the local score
MlValNeutral(ml_score, localScore) ==
    IF ml_score.t \in {"number", "nan"} THEN ml_score ELSE Num(50)

\* (typeof ml_score === "number") ? ml_score : localScore
MlVal(ml_score, localScore) ==
    IF ml_score.t \in {"number", "nan"} THEN ml_score ELSE Num(localScore)

\* 100 - (headerTrust || 50)
HeaderSuspicion(headerTrust) == 100 - (IF headerTrust # 0 THEN headerTrust ELSE 50)

\* Math.round of a number of hundredths
RoundHundredths(x) == (x + 50) \div 100

\* Math.max(0, Math.min(MAX_SCORE, Math.round(...))) (389-395)
FinalScore(localScore, mlVal, headerTrust) ==
    IF mlVal.t = "nan" THEN NaN
    ELSE Num(Max(0, Min(MAX_SCORE,
            RoundHundredths(localScore * WEIGHTS.local
                            + mlVal.v * WEIGHTS.ml
                            + HeaderSuspicion(headerTrust) * WEIGHTS.header))))

\* the response of get_scores (397-403)
ScoresResponse(localScore, ml_score, headerTrust) ==
    [kind |-> "scores", ok |-> TRUE,
     localScore |-> localScore,
     ml_score |-> MlVal(ml_score, localScore),
     headerTrust |-> headerTrust,
     final_score |-> FinalScore(localScore, MlVal(ml_score, localScore), headerTrust)]

(***************************************************************************)
(* chrome.runtime.onMessage: get_headers (244-319), get_scores (324-404)   *)
(*                                                                         *)
(* One action per stretch of a handler between two awaits.  The row of the *)
(* inbox names one message, MsgId, under one query key, QueryKey.  The     *)
(* cached result keeps what the responses and the trust depend on; the raw *)
(* headers object it also holds is left out.  The field trustFrom of a     *)
(* request records how the header step of its get_scores ended: "neutral"  *)
(* (not ended yet), "no_token" (352), "no_message" (354), "failed" (the    *)
(* catch at 381), "cached" (357) or "fresh" (360-372).  The field          *)
(* fetchedAt of a request, and of the result it caches, is history: the    *)
(* time at which fetchMessageMetadata returned the headers; the field sent  *)
(* counts the calls of sendResponse the invocation has made.               *)
(***************************************************************************)
Slots == {1, 2}
MsgId == "m1"
QueryKey == "q1"

NoResponse == [kind |-> "none"]
ErrorResponse(error) == [kind |-> "error", ok |-> FALSE, error |-> error]
\* { ok: true, ...result }
HeadersResponse(data) == [kind |-> "headers", ok |-> TRUE, data |-> data]

IdleReq ==
    [pc |-> "idle", type |-> "none", trust |-> 50, steps |-> <<>>,
     parsed |-> NotParsed, envelopeMismatch |-> FALSE, googleRelay |-> FALSE,
     localScore |-> 50, ml_score |-> Null, response |-> NoResponse,
     trustFrom |-> "neutral", fetchedAt |-> -1, sent |-> 0]

Respond(r, response) ==
    [reqs EXCEPT ![r].pc = "done", ![r].response = response, ![r].sent = @ + 1]

\* get_headers up to the wait for the token (245-255)
StartGetHeaders(r) ==
    /\ reqs[r].pc \in {"idle", "done"}
    /\ LET cached == cacheGet(QUERY_CACHE, QueryKey)
           fresh == [IdleReq EXCEPT !.type = "get_headers"]
       IN  /\ QUERY_CACHE' = cacheGetMap(QUERY_CACHE, QueryKey)
           /\ reqs' = [reqs EXCEPT ![r] =
                  IF cached.hit
                  THEN [fresh EXCEPT !.pc = "done", !.response = HeadersResponse(cached.data),
                                     !.sent = 1]
                  ELSE [fresh EXCEPT !.pc = "gh_token"]]
    /\ UNCHANGED <<now, HEADER_CACHE, lastSet, getOut, trustedSenders, mail, mlBackend, payload>>

\* getGmailToken(false) settles (255-263)
GhToken(r, token) ==
    /\ reqs[r].pc = "gh_token"
    /\ reqs' = IF token THEN [reqs EXCEPT ![r].pc = "gh_find"]
               ELSE Respond(r, ErrorResponse("no_token"))
    /\ UNCHANGED <<cacheVars, trustedSenders, mail, mlBackend, payload>>

\* findMessageId settles: an id, no message, or the Gmail API throws (263-276)
GhFind(r, outcome) ==
    /\ reqs[r].pc = "gh_find"
    /\ IF outcome = "found"
       THEN LET headerCached == cacheGet(HEADER_CACHE, MsgId) IN
            /\ HEADER_CACHE' = cacheGetMap(HEADER_CACHE, MsgId)
            /\ IF headerCached.hit
               THEN /\ QUERY_CACHE' = cacheSet(QUERY_CACHE, QueryKey, headerCached.data,
                                               QUERY_CACHE_TTL_MS)
                    /\ reqs' = Respond(r, HeadersResponse(headerCached.data))
               ELSE /\ reqs' = [reqs EXCEPT ![r].pc = "gh_fetch"]
                    /\ UNCHANGED QUERY_CACHE
       ELSE /\ reqs' = Respond(r, ErrorResponse(IF outcome = "none" THEN "no_message"
                                                ELSE "Error: Gmail API"))
            /\ UNCHANGED <<HEADER_CACHE, QUERY_CACHE>>
    /\ UNCHANGED <<now, lastSet, getOut, trustedSenders, mail, mlBackend, payload>>

\* fetchMessageMetadata settles; trust up to the wait for the boost (276-300)
GhFetch(r, fetched) ==
    /\ reqs[r].pc = "gh_fetch"
    /\ reqs' = IF fetched
               THEN [reqs EXCEPT ![r].pc = "gh_boost",
                                 ![r].parsed = parseAuthResults(AuthRaw(mail)),
                                 ![r].steps = GetHeadersTrustSteps(mail),
                                 ![r].trust = GetHeadersTrustSteps(mail)[3],
                                 ![r].envelopeMismatch = EnvelopeMismatch(mail),
                                 ![r].googleRelay = detectGoogleRelay(mail),
                                 ![r].fetchedAt = now]
               ELSE Respond(r, ErrorResponse("Error: Gmail API"))
    /\ UNCHANGED <<cacheVars, trustedSenders, mail, mlBackend, payload>>

\* getTrustedSenderBoost settles; result, both caches, response (300-318)
GhBoost(r) ==
    /\ reqs[r].pc = "gh_boost"
    /\ BoostResolves(SenderDomain(mail))
    /\ LET historyBoost == getTrustedSenderBoostValue(trustedSenders, SenderDomain(mail))
           trust == AddHistoryBoost(reqs[r].trust, historyBoost)
           result == [messageId |-> MsgId, parsed |-> reqs[r].parsed, trustBoost |-> trust,
                      envelopeMismatch |-> reqs[r].envelopeMismatch,
                      googleRelay |-> reqs[r].googleRelay,
                      fetchedAt |-> reqs[r].fetchedAt]
       IN  /\ HEADER_CACHE' = cacheSet(HEADER_CACHE, MsgId, result, CACHE_TTL_MS)
           /\ QUERY_CACHE' = cacheSet(QUERY_CACHE, QueryKey, result, QUERY_CACHE_TTL_MS)
           /\ reqs' = [reqs EXCEPT ![r].pc = "done", ![r].trust = trust,
                                   ![r].steps = Append(@, trust),
                                   ![r].response = HeadersResponse(result),
                                   ![r].sent = @ + 1]
    /\ UNCHANGED <<now, lastSet, getOut, trustedSenders, mail, mlBackend, payload>>

\* get_scores up to the wait for the backend (325-336)
StartGetScores(r) ==
    /\ reqs[r].pc \in {"idle", "done"}
    /\ reqs' = [reqs EXCEPT ![r] =
           [IdleReq EXCEPT !.type = "get_scores", !.pc = "gs_ml",
                           !.localScore = LocalScoreOf(payload)]]
    /\ UNCHANGED <<cacheVars, trustedSenders, mail, mlBackend, payload>>

\* the backend call settles; ml_score; headerTrust = 50 (337-351)
GsMl(r) ==
    /\ reqs[r].pc = "gs_ml"
    /\ reqs' = [reqs EXCEPT ![r].pc = "gs_token",
                            ![r].ml_score = MlScoreOf(mlBackend),
                            ![r].trust = 50]
    /\ UNCHANGED <<cacheVars, trustedSenders, mail, mlBackend, payload>>

\* the response of get_scores with the headerTrust reached
Ensemble(r, headerTrust) ==
    [reqs EXCEPT ![r].pc = "done", ![r].trust = headerTrust,
                 ![r].response = ScoresResponse(reqs[r].localScore, reqs[r].ml_score,
                                                headerTrust),
                 ![r].sent = @ + 1]

\* getGmailToken(false) settles (351-353)
GsToken(r, token) ==
    /\ reqs[r].pc = "gs_token"
    /\ reqs' = IF token THEN [reqs EXCEPT ![r].pc = "gs_find"]
               ELSE [Ensemble(r, reqs[r].trust) EXCEPT ![r].trustFrom = "no_token"]
    /\ UNCHANGED <<cacheVars, trustedSenders, mail, mlBackend, payload>>

\* findMessageId settles (353-360, 381-383)
GsFind(r, outcome) ==
    /\ reqs[r].pc = "gs_find"
    /\ IF outcome = "found"
       THEN LET cached == cacheGet(HEADER_CACHE, MsgId) IN
            /\ HEADER_CACHE' = cacheGetMap(HEADER_CACHE, MsgId)
            /\ reqs' = IF cached.hit
                       THEN [Ensemble(r, IF cached.data.trustBoost # 0
                                         THEN cached.data.trustBoost ELSE reqs[r].trust)
                             EXCEPT ![r].trustFrom = "cached"]
                       ELSE [reqs EXCEPT ![r].pc = "gs_fetch"]
       ELSE /\ reqs' = [Ensemble(r, reqs[r].trust) EXCEPT
                            ![r].trustFrom = IF outcome = "none" THEN "no_message"
                                             ELSE "failed"]
            /\ UNCHANGED HEADER_CACHE
    /\ UNCHANGED <<now, QUERY_CACHE, lastSet, getOut, trustedSenders, mail, mlBackend, payload>>

\* GsFetch with the ensemble computed and sent as soon as the metadata is
\* there, from the headerTrust of that moment, while the trust steps go on
GsFetchEnsembleEarly(r, fetched) ==
    /\ reqs[r].pc = "gs_fetch"
    /\ reqs' = IF fetched
               THEN [Ensemble(r, reqs[r].trust) EXCEPT
                         ![r].pc = "gs_boost",
                         ![r].parsed = parseAuthResults(AuthRaw(mail)),
                         ![r].steps = GetScoresTrustSteps(mail),
                         ![r].trust = GetScoresTrustSteps(mail)[3]]
               ELSE [Ensemble(r, reqs[r].trust) EXCEPT ![r].trustFrom = "failed"]
    /\ UNCHANGED <<cacheVars, trustedSenders, mail, mlBackend, payload>>

\* fetchMessageMetadata settles; headerTrust up to the wait for the boost (360-371, 375-377)
GsFetch(r, fetched) ==
    /\ reqs[r].pc = "gs_fetch"
    /\ reqs' = IF fetched
               THEN [reqs EXCEPT ![r].pc = "gs_boost",
                                 ![r].parsed = parseAuthResults(AuthRaw(mail)),
                                 ![r].steps = GetScoresTrustSteps(mail),
                                 ![r].trust = GetScoresTrustSteps(mail)[3],
                                 ![r].fetchedAt = now]
               ELSE [Ensemble(r, reqs[r].trust) EXCEPT ![r].trustFrom = "failed"]
    /\ UNCHANGED <<cacheVars, trustedSenders, mail, mlBackend, payload>>

\* getTrustedSenderBoost settles; header cache, ensemble, response (371-403)
GsBoost(r) ==
    /\ reqs[r].pc = "gs_boost"
    /\ BoostResolves(SenderDomain(mail))
    /\ LET historyBoost == getTrustedSenderBoostValue(trustedSenders, SenderDomain(mail))
           headerTrust == AddHistoryBoost(reqs[r].trust, historyBoost)
       IN  /\ HEADER_CACHE' = cacheSet(HEADER_CACHE, MsgId,
                                  [messageId |-> MsgId, parsed |-> reqs[r].parsed,
                                   trustBoost |-> headerTrust,
                                   fetchedAt |-> reqs[r].fetchedAt], CACHE_TTL_MS)
           /\ reqs' = [Ensemble(r, headerTrust) EXCEPT ![r].steps = Append(@, headerTrust),
                                                         ![r].trustFrom = "fresh"]
    /\ UNCHANGED <<now, QUERY_CACHE, lastSet, getOut, trustedSenders, mail, mlBackend, payload>>

\* a message without a type (227), or of a type no branch handles (445)
StartUntyped(r, type) ==
    /\ reqs[r].pc \in {"idle", "done"}
    /\ reqs' = [reqs EXCEPT ![r] =
           [IdleReq EXCEPT !.type = type, !.pc = "done", !.sent = 1,
                           !.response = ErrorResponse(IF type = "missing" THEN "no_type"
                                                      ELSE "unknown_type")]]
    /\ UNCHANGED <<cacheVars, trustedSenders, mail, mlBackend, payload>>

\* interactive_auth up to the wait for the token (232-234)
StartInteractiveAuth(r) ==
    /\ reqs[r].pc \in {"idle", "done"}
    /\ reqs' = [reqs EXCEPT ![r] = [IdleReq EXCEPT !.type = "interactive_auth", !.pc = "ia_token"]]
    /\ UNCHANGED <<cacheVars, trustedSenders, mail, mlBackend, payload>>

\* getGmailToken(true) settles: { ok: true }, or the rejection caught at 236
IaToken(r, token) ==
    /\ reqs[r].pc = "ia_token"
    /\ reqs' = Respond(r, IF token THEN [kind |-> "auth", ok |-> TRUE]
                          ELSE ErrorResponse("Error: No token"))
    /\ UNCHANGED <<cacheVars, trustedSenders, mail, mlBackend, payload>>

\* feedback (409-437): requests the read of the log, calls
\* addTrustedSenderDomain(dom) for a label "safe" with a sender domain, and
\* answers { ok: true }.  Feedback messages and addTrustedSenderDomain calls
\* share their numbering: a message that makes no call, or one without a
\* domain, leaves its call finished at once.
Feedback(r, c, label, dom) ==
    /\ reqs[r].pc \in {"idle", "done"}
    /\ fbCalls[c].pc = "idle"
    /\ \A b \in CallIds : b < c => fbCalls[b].pc # "idle"
    /\ fbCalls' = [fbCalls EXCEPT ![c] = [pc |-> "get", arr |-> <<>>]]
    /\ RecordSafeStart(c, IF label = "safe" THEN dom ELSE "null")
    /\ reqs' = [reqs EXCEPT ![r] =
           [IdleReq EXCEPT !.type = "feedback", !.pc = "done", !.sent = 1,
                           !.response = [kind |-> "ack", ok |-> TRUE]]]
    /\ UNCHANGED <<phishFeedback, cacheVars, mail, mlBackend, payload>>

\* the handlers at rest, in the specifications that do not use them
HandlerIdle ==
    /\ mail = [auth |-> <<>>, displayDomain |-> "null", returnPathDomain |-> "null",
               relayHeaders |-> {}]
    /\ mlBackend = [kind |-> "unreachable"]
    /\ payload = [localScore |-> Undefined]
    /\ reqs = [r \in Slots |-> IdleReq]

FindOutcomes == {"found", "none", "error"}

(***************************************************************************)
(* The ensemble of get_scores (385-403) applied to given values of          *)
(* localScore, ml_score and headerTrust.                                   *)
(***************************************************************************)
\* the scores tried are those within EdgeWidth of 0, of 50 and of 100
EdgeWidth == 2

ScoreSamples ==
    (0..EdgeWidth) \cup ((50 - EdgeWidth)..(50 + EdgeWidth)) \cup ((100 - EdgeWidth)..100)

EnsembleInputs ==
    [localScore : ScoreSamples,
     ml_score : {Null} \cup {Num(n) : n \in ScoreSamples},
     headerTrust : ScoreSamples]

EnsembleIdle ==
    /\ ensIn = [localScore |-> 50, ml_score |-> Null, headerTrust |-> 50]
    /\ ensPc = "start"
    /\ ensOut = NoResponse

EnsembleStart ==
    /\ ensIn \in EnsembleInputs
    /\ ensPc = "start"
    /\ ensOut = NoResponse

\* lines 385-403 of get_scores
EnsembleCall ==
    /\ ensPc = "start"
    /\ ensPc' = "done"
    /\ ensOut' = ScoresResponse(ensIn.localScore, ensIn.ml_score, ensIn.headerTrust)
    /\ UNCHANGED ensIn

\* what POST /predict may answer
MlBackends ==
    {[kind |-> "unreachable"], [kind |-> "notjson"]} \cup
    {[kind |-> "json", json |-> j] :
        j \in [ml_score : {Undefined, Num(0), Num(80), NumString(80), BadString},
               score : {Undefined, Num(60)}]}

(***************************************************************************)
(* Link protection (content.js 253-274, 279-291, 727-814, 819-901)         *)
(***************************************************************************)

TokNgrokFreeApp == <<"n", "g", "r", "o", "k", "-", "f", "r", "e", "e", ".", "a", "p", "p">>
TokNgrokIo == <<"n", "g", "r", "o", "k", ".", "i", "o">>
TokVerify == <<"v", "e", "r", "i", "f", "y">>
TokGoogle == <<"g", "o", "o", "g", "l", "e">>
TokLogin == <<"l", "o", "g", "i", "n">>
TokReset == <<"r", "e", "s", "e", "t">>
TokForgot == <<"f", "o", "r", "g", "o", "t">>
TokAccount == <<"a", "c", "c", "o", "u", "n", "t">>
TokPassword == <<"p", "a", "s", "s", "w", "o", "r", "d">>
TokHttp == <<"h", "t", "t", "p", ":", "/", "/">>
TokSecurity == <<"s", "e", "c", "u", "r", "i", "t", "y">>
TokAlert == <<"a", "l", "e", "r", "t">>
TokUnusual == <<"u", "n", "u", "s", "u", "a", "l">>
TokActivity == <<"a", "c", "t", "i", "v", "i", "t", "y">>

IsDigit(c) == c \in {"0", "1", "2", "3", "4", "5", "6", "7", "8", "9"}

\* n digits at position i of s
DigitsAt(s, i, n) == i + n - 1 <= Len(s) /\ \A k \in 0..(n - 1) : IsDigit(s[i + k])

DotAt(s, i) == i <= Len(s) /\ s[i] = "."

\* /\d{1,3}\.\d{1,3}\.\d{1,3}\.\d{1,3}/.test(s): the pattern is not anchored, so
\* one digit before the first dot and one after the last are enough
HasDottedQuad(s) ==
    \E i \in 1..Len(s), a \in 1..3, b \in 1..3 :
        /\ DigitsAt(s, i, 1)
        /\ DotAt(s, i + 1)
        /\ DigitsAt(s, i + 2, a)
        /\ DotAt(s, i + 2 + a)
        /\ DigitsAt(s, i + 3 + a, b)
        /\ DotAt(s, i + 3 + a + b)
        /\ DigitsAt(s, i + 4 + a + b, 1)

\* /a.*b/.test(s), for a string without line breaks
IncludesThen(s, a, b) ==
    \E i \in 0..(Len(s) - Len(a)) :
        /\ SubSeq(s, i + 1, i + Len(a)) = a
        /\ includes(SubSeq(s, i + Len(a) + 1, Len(s)), b)

\* /\.(t1|t2|...)$/.test(s)
EndsWithDot(s, t) ==
    /\ Len(s) >= Len(t) + 1
    /\ SubSeq(s, Len(s) - Len(t) + 1, Len(s)) = t
    /\ s[Len(s) - Len(t)] = "."

\* `.${brand}.`
Dotted(brand) == <<".">> \o brand \o <<".">>

LinkBrands ==
    {TokGoogle,
     <<"m","i","c","r","o","s","o","f","t">>,
     <<"p","a","y","p","a","l">>,
     <<"f","a","c","e","b","o","o","k">>}

SuspiciousBrands ==
    LinkBrands \cup {<<"a","m","a","z","o","n">>, <<"a","p","p","l","e">>, <<"b","a","n","k">>}

SuspiciousTlds ==
    {<<"x","y","z">>, <<"t","o","p">>, <<"c","l","u","b">>, <<"r","u">>, <<"t","k">>,
     <<"c","f">>, <<"g","a">>, <<"g","q">>, <<"m","l">>, <<"n","g","r","o","k">>,
     <<"l","o","c","a","l","t","e","s","t">>}

\* estimateLinkRisk with the cap of line 273 left out
estimateLinkRiskUncapped(url) ==
    (IF includes(url, TokNgrokFreeApp) \/ includes(url, TokNgrokIo) THEN 70 ELSE 0)
    + (IF HasDottedQuad(url) THEN 80 ELSE 0)
    + (IF includes(url, TokVerify) /\ includes(url, TokGoogle) THEN 90 ELSE 0)
    + (IF includes(url, TokLogin) \/ includes(url, TokReset) \/ includes(url, TokForgot)
       THEN 50 ELSE 0)
    + (IF includes(url, TokHttp) THEN 30 ELSE 0)
    + 60 * Cardinality({b \in LinkBrands : includes(url, b) /\ ~includes(url, Dotted(b))})

estimateLinkRisk(url) == Min(100, estimateLinkRiskUncapped(url))

isSuspiciousUrl(url) ==
    LET urlLower == toLowerCase(url) IN
    \/ \E b \in SuspiciousBrands : includes(urlLower, b) /\ ~includes(urlLower, Dotted(b))
    \/ HasDottedQuad(url)
    \/ \E t \in SuspiciousTlds : EndsWithDot(urlLower, t)
    \/ \E k \in {TokLogin, TokVerify, TokAccount, TokPassword, TokReset, TokForgot} :
          includes(urlLower, k)
    \/ includes(url, TokNgrokFreeApp) \/ includes(url, TokNgrokIo)
    \/ IncludesThen(urlLower, TokVerify, TokGoogle) \/ IncludesThen(urlLower, TokGoogle, TokVerify)
    \/ IncludesThen(urlLower, TokSecurity, TokAlert) \/ IncludesThen(urlLower, TokAlert, TokSecurity)
    \/ IncludesThen(urlLower, TokUnusual, TokActivity) \/ IncludesThen(urlLower, TokActivity, TokUnusual)

SuspiciousSenderDomains ==
    {<<"t","e","m","p","m","a","i","l",".","c","o","m">>,
     <<"f","a","k","e","i","n","b","o","x",".","c","o","m">>,
     <<"t","h","r","o","w","a","w","a","y",".","c","o","m">>}

isSuspiciousSender(email) == \E d \in SuspiciousSenderDomains : includes(email, d)

calculateHeaderRisk(emailData) ==
    Min(100,
        (IF emailData.spf = "FAIL" THEN 30 ELSE 0)
        + (IF emailData.dkim = "FAIL" THEN 25 ELSE 0)
        + (IF emailData.dmarc = "FAIL" THEN 20 ELSE 0)
        + (IF isSuspiciousSender(emailData.fromAddress) THEN 15 ELSE 0))

\* the class of the quick assessment, line 290
RiskTier(quickRisk) ==
    IF quickRisk > 70 THEN "high" ELSE IF quickRisk > 40 THEN "medium" ELSE "low"

\* line 771
CombinedRisk(urlRisk, emailRisk) ==
    IF emailRisk > 0 THEN Max(urlRisk, emailRisk) ELSE urlRisk

\* the condition of line 773 with the pattern flag left out
InterceptsOnRiskAlone(urlSuspicious, combinedRisk) == combinedRisk > 60

\* the condition of line 773
Intercepts(urlSuspicious, combinedRisk) == urlSuspicious \/ combinedRisk > 60

UrlSchemes == {<<"h", "t", "t", "p", ":", "/", "/">>, <<"h", "t", "t", "p", "s", ":", "/", "/">>}

UrlHosts ==
    {<<"e", "x", "a", "m", "p", "l", "e", ".", "c", "o", "m">>,
     <<"1", "9", "2", ".", "1", "6", "8", ".", "1", ".", "5">>,
     <<"w", "w", "w", ".", "g", "o", "o", "g", "l", "e", ".", "c", "o", "m">>,
     <<"g", "o", "o", "g", "l", "e", "-", "v", "e", "r", "i", "f", "y", ".", "c", "o", "m">>,
     <<"a", "b", "c", ".", "n", "g", "r", "o", "k", ".", "i", "o">>,
     <<"p", "a", "y", "p", "a", "l", ".", "c", "o", "m">>,
     <<"p", "a", "y", "p", "a", "l", "-", "v", "e", "r", "i", "f", "y", ".", "c", "o", "m">>,
     <<"w", "w", "w", ".", "p", "a", "y", "p", "a", "l", ".", "c", "o", "m">>}

UrlPaths ==
    {<<"/">>,
     <<"/", "l", "o", "g", "i", "n">>,
     <<"/", "L", "O", "G", "I", "N">>,
     <<"/", "n", "e", "w", "s", ".", "x", "y", "z">>,
     <<"/", "s", "e", "c", "u", "r", "i", "t", "y", "/", "a", "l", "e", "r", "t">>}

\* link.href of the anchors: an absolute URL, so with a path
Urls == {s \o h \o p : s \in UrlSchemes, h \in UrlHosts, p \in UrlPaths}

FromAddresses ==
    {<<"a", "l", "i", "c", "e", "@", "e", "x", "a", "m", "p", "l", "e", ".", "c", "o", "m">>,
     <<"b", "o", "b", "@", "t", "e", "m", "p", "m", "a", "i", "l", ".", "c", "o", "m">>}

AuthStatus == {"PASS", "FAIL"}

\* the anchors: outside the message list, or in a row (.zA) with a sender
Links ==
    {[href |-> u, inRow |-> FALSE, fromAddress |-> <<>>] : u \in Urls} \cup
    {[href |-> u, inRow |-> TRUE, fromAddress |-> f] : u \in Urls, f \in FromAddresses}

NoClick == [urlSuspicious |-> FALSE, urlRisk |-> -1, combinedRisk |-> -1, intercepted |-> FALSE]
NoPopup == [quickRisk |-> -1, tier |-> "none"]

GateIdle ==
    /\ link = [href |-> <<>>, inRow |-> FALSE, fromAddress |-> <<>>]
    /\ emailRiskScore = 0
    /\ gatePc = "new"
    /\ clickOut = NoClick
    /\ popup = NoPopup

GateStart ==
    /\ link \in Links
    /\ emailRiskScore = 0
    /\ gatePc = "new"
    /\ clickOut = NoClick
    /\ popup = NoPopup

\* protectSuspiciousLinks on the anchor, lines 739-763; spf, dkim and dmarc are
\* what the three Math.random() draws of extractEmailData give
ProtectLink(spf, dkim, dmarc) ==
    /\ gatePc = "new"
    /\ gatePc' = "protected"
    /\ emailRiskScore' =
          IF link.inRow
          THEN calculateHeaderRisk([spf |-> spf, dkim |-> dkim, dmarc |-> dmarc,
                                    fromAddress |-> link.fromAddress])
          ELSE 0
    /\ UNCHANGED <<link, clickOut, popup>>

\* the click listener, lines 765-788, up to the await of the popup
ClickLink ==
    /\ gatePc = "protected"
    /\ LET urlSuspicious == isSuspiciousUrl(link.href)
           urlRisk == estimateLinkRisk(link.href)
           combinedRisk == CombinedRisk(urlRisk, emailRiskScore)
           intercepted == Intercepts(urlSuspicious, combinedRisk)
       IN  /\ clickOut' = [urlSuspicious |-> urlSuspicious, urlRisk |-> urlRisk,
                           combinedRisk |-> combinedRisk, intercepted |-> intercepted]
           /\ gatePc' = IF intercepted THEN "popup" ELSE "navigated"
    /\ UNCHANGED <<link, emailRiskScore, popup>>

\* createPhishSpectorPopup: the quick assessment of lines 397 and 288-291
ShowPopup ==
    /\ gatePc = "popup"
    /\ gatePc' = "shown"
    /\ popup' = [quickRisk |-> estimateLinkRisk(link.href),
                 tier |-> RiskTier(estimateLinkRisk(link.href))]
    /\ UNCHANGED <<link, emailRiskScore, clickOut>>

(***************************************************************************)
(* Local heuristic scoring (content.js 15-65)                              *)
(*                                                                         *)
(* Math.random() * 4 lies in [0, 4).  The score before the jitter is an    *)
(* integer, so Math.round(score + jitter) depends only on the half-unit    *)
(* interval [h/2, (h+1)/2) the jitter falls in, h in 0..7: it adds         *)
(* (h + 1) \div 2.                                                         *)
(***************************************************************************)
IsSpace(c) == c \in {" ", "\t", "\n", "\r"}

IsUpper(c) ==
    c \in {"A", "B", "C", "D", "E", "F", "G", "H", "I", "J", "K", "L", "M",
           "N", "O", "P", "Q", "R", "S", "T", "U", "V", "W", "X", "Y", "Z"}

IsLetter(c) == IsUpper(c) \/ LowerChar(c) # c \/ c \in
    {"a", "b", "c", "d", "e", "f", "g", "h", "i", "j", "k", "l", "m",
     "n", "o", "p", "q", "r", "s", "t", "u", "v", "w", "x", "y", "z"}

\* \w
IsWordChar(c) == IsLetter(c) \/ IsDigit(c) \/ c = "_"

\* String.prototype.trim
trim(s) ==
    LET kept == {i \in 1..Len(s) : ~IsSpace(s[i])} IN
    IF kept = {} THEN <<>>
    ELSE SubSeq(s, CHOOSE i \in kept : \A j \in kept : i <= j,
                   CHOOSE i \in kept : \A j \in kept : i >= j)

\* t, given in lower case, stands at position i of s, case ignored
PrefixAt(s, i, t) ==
    /\ i >= 1
    /\ i + Len(t) - 1 <= Len(s)
    /\ toLowerCase(SubSeq(s, i, i + Len(t) - 1)) = t

\* the length of what https?:\/\/ matches at position i, case ignored; 0 for no match
SchemeLen(s, i) ==
    IF PrefixAt(s, i, <<"h","t","t","p","s",":","/","/">>) THEN 8
    ELSE IF PrefixAt(s, i, <<"h","t","t","p",":","/","/">>) THEN 7
    ELSE 0

\* the last position of the run [^\s)]* that starts at position j (j - 1 for an empty run)
RECURSIVE RunEnd(_, _)
RunEnd(s, j) ==
    IF j <= Len(s) /\ ~IsSpace(s[j]) /\ s[j] # ")" THEN RunEnd(s, j + 1) ELSE j - 1

\* s.match(/https?:\/\/[^\s)]+/gi) || [], searching from position i on
RECURSIVE MatchUrlsFrom(_, _)
MatchUrlsFrom(s, i) ==
    IF i > Len(s) THEN <<>>
    ELSE LET p == SchemeLen(s, i)
             e == RunEnd(s, i + p)
         IN  IF p > 0 /\ e >= i + p
             THEN <<SubSeq(s, i, e)>> \o MatchUrlsFrom(s, e + 1)
             ELSE MatchUrlsFrom(s, i + 1)

MatchUrls(s) == MatchUrlsFrom(s, 1)

\* /\bhttps?:\/\/\d{1,3}(\.\d{1,3}){3}[:\/]/.test(low)
\* \d{1,3}(\.\d{1,3}){3}[:\/] matches at position j of s
IpThenSeparatorAt(s, j) ==
    \E a \in 1..3 :
        /\ DigitsAt(s, j, a) /\ DotAt(s, j + a)
        /\ \E b \in 1..3 :
              /\ DigitsAt(s, j + a + 1, b) /\ DotAt(s, j + a + 1 + b)
              /\ \E c \in 1..3 :
                    /\ DigitsAt(s, j + a + b + 2, c) /\ DotAt(s, j + a + b + 2 + c)
                    /\ \E d \in 1..3 :
                          /\ DigitsAt(s, j + a + b + c + 3, d)
                          /\ j + a + b + c + d + 3 <= Len(s)
                          /\ s[j + a + b + c + d + 3] \in {":", "/"}

HasIpHost(low) ==
    \E i \in 1..Len(low) :
        /\ low[i] = "h"
        /\ (i = 1 \/ ~IsWordChar(low[i - 1]))
        /\ SchemeLen(low, i) > 0
        /\ IpThenSeparatorAt(low, i + SchemeLen(low, i))

\* /[A-Z0-9._%+-]+@[A-Z0-9.-]+\.[A-Z]{2,}/i matches somewhere in s
HasEmailLike(s) ==
    \E p \in 2..Len(s) :
      /\ s[p] = "@"
      /\ IsLetter(s[p - 1]) \/ IsDigit(s[p - 1]) \/ s[p - 1] \in {".", "_", "%", "+", "-"}
      /\ \E q \in (p + 2)..Len(s) :
        /\ \A k \in (p + 1)..(q - 1) : IsLetter(s[k]) \/ IsDigit(s[k]) \/ s[k] \in {".", "-"}
        /\ s[q] = "."
        /\ q + 2 <= Len(s)
        /\ IsLetter(s[q + 1])
        /\ IsLetter(s[q + 2])

\* /\bt\b/i.test(s), for a word t given in lower case
HasWord(s, t) ==
    \E i \in 1..Len(s) :
        /\ PrefixAt(s, i, t)
        /\ (i = 1 \/ ~IsWordChar(s[i - 1]))
        /\ (i + Len(t) > Len(s) \/ ~IsWordChar(s[i + Len(t)]))

LexVeryStrong ==
    {<<"a", "c", "c", "o", "u", "n", "t", " ", "s", "u", "s", "p", "e", "n", "d", "e", "d">>,
     <<"w", "i", "r", "e", " ", "t", "r", "a", "n", "s", "f", "e", "r">>,
     <<"p", "a", "y", "m", "e", "n", "t", " ", "r", "e", "q", "u", "i", "r", "e", "d">>,
     <<"v", "e", "r", "i", "f", "y", " ", "a", "c", "c", "o", "u", "n", "t">>,
     <<"v", "e", "r", "i", "f", "y", " ", "y", "o", "u", "r", " ", "a", "c", "c", "o", "u", "n", "t">>,
     <<"r", "e", "s", "e", "t", " ", "y", "o", "u", "r", " ", "p", "a", "s", "s", "w", "o", "r", "d">>,
     <<"a", "c", "t", "i", "o", "n", " ", "r", "e", "q", "u", "i", "r", "e", "d">>,
     <<"c", "o", "n", "f", "i", "r", "m", " ", "y", "o", "u", "r", " ", "a", "c", "c", "o", "u", "n", "t">>,
     <<"y", "o", "u", "r", " ", "a", "c", "c", "o", "u", "n", "t", " ", "h", "a", "s", " ", "b", "e", "e", "n", " ", "s", "u", "s", "p", "e", "n", "d", "e", "d">>,
     <<"u", "n", "a", "u", "t", "h", "o", "r", "i", "z", "e", "d">>}

LexStrong ==
    {<<"u", "r", "g", "e", "n", "t">>,
     <<"v", "e", "r", "i", "f", "y">>,
     <<"v", "e", "r", "i", "f", "i", "c", "a", "t", "i", "o", "n">>,
     <<"r", "e", "s", "e", "t">>,
     <<"p", "a", "s", "s", "w", "o", "r", "d">>,
     <<"a", "c", "c", "o", "u", "n", "t">>,
     <<"s", "u", "s", "p", "e", "n", "d", "e", "d">>,
     <<"s", "e", "c", "u", "r", "i", "t", "y", " ", "a", "l", "e", "r", "t">>,
     <<"c", "l", "i", "c", "k">>,
     <<"c", "o", "n", "f", "i", "r", "m">>,
     <<"i", "m", "m", "e", "d", "i", "a", "t", "e", "l", "y">>,
     <<"l", "i", "m", "i", "t", "e", "d", " ", "t", "i", "m", "e">>,
     <<"i", "n", "v", "o", "i", "c", "e">>,
     <<"s", "i", "g", "n", "-", "i", "n">>}

LexSuspiciousTLDs ==
    {<<".", "x", "y", "z">>,
     <<".", "t", "o", "p">>,
     <<".", "c", "l", "u", "b">>,
     <<".", "r", "u">>,
     <<".", "t", "k">>,
     <<".", "c", "f">>,
     <<".", "g", "a">>,
     <<".", "g", "q">>,
     <<".", "m", "l">>}

LexBrands ==
    {<<"g", "o", "o", "g", "l", "e">>,
     <<"p", "a", "y", "p", "a", "l">>,
     <<"a", "m", "a", "z", "o", "n">>,
     <<"m", "i", "c", "r", "o", "s", "o", "f", "t">>,
     <<"a", "p", "p", "l", "e">>,
     <<"b", "a", "n", "k">>,
     <<"f", "a", "c", "e", "b", "o", "o", "k">>,
     <<"l", "i", "n", "k", "e", "d", "i", "n">>}

TokPunycode == <<"x","n","-","-">>
TokAttachment == <<"a","t","t","a","c","h","m","e","n","t">>
TokPaperclip == <<"p","a","p","e","r","c","l","i","p">>

\* line 18 without its toLowerCase
LexCombinedCaseKept(info) ==
    trim(info.subjectText) \o <<" ">> \o info.snippetText \o <<" ">>
    \o info.rowText \o <<" ">> \o info.fromText

\* line 18
LexCombined(info) ==
    toLowerCase(trim(info.subjectText) \o <<" ">> \o info.snippetText \o <<" ">>
                \o info.rowText \o <<" ">> \o info.fromText)

\* what the body of urls.forEach adds for the URL u (38-42)
UrlPenalty(u) ==
    LET low == toLowerCase(u) IN
    18 * Cardinality({t \in LexSuspiciousTLDs : includes(low, t)})
    + (IF HasIpHost(low) THEN 20 ELSE 0)
    + (IF includes(low, TokPunycode) THEN 20 ELSE 0)
    + (IF Len(low) > 90 THEN 8 ELSE 0)

RECURSIVE SumUrlPenalties(_)
SumUrlPenalties(urls) ==
    IF urls = <<>> THEN 0 ELSE UrlPenalty(Head(urls)) + SumUrlPenalties(Tail(urls))

\* ExclamScore without the cap of 12: 4 for every mark
ExclamScoreUncapped(subj) ==
    4 * Cardinality({i \in 1..Len(subj) : subj[i] = "!"})

\* the contribution of the exclamation marks of the subject (56-57)
ExclamScore(subj) ==
    LET exclam == Cardinality({i \in 1..Len(subj) : subj[i] = "!"}) IN
    IF exclam > 0 THEN Min(12, exclam * 4) ELSE 0

\* uppercaseShare > 0.4 (58-59)
UppercaseHeavy(subj) ==
    5 * Cardinality({i \in 1..Len(subj) : IsUpper(subj[i])}) > 2 * Max(1, Len(subj))

\* score before line 63
LexSum(info) ==
    LET subj == trim(info.subjectText)
        combined == LexCombined(info)
        urls == MatchUrls(info.snippetText)
        fromLow == toLowerCase(info.fromText)
    IN  30 * Cardinality({k \in LexVeryStrong : includes(combined, k)})
        + 12 * Cardinality({k \in LexStrong : includes(combined, k)})
        + (IF Len(urls) >= 1 THEN 25 ELSE 0)
        + (IF Len(urls) >= 2 THEN 10 ELSE 0)
        + SumUrlPenalties(urls)
        + 22 * Cardinality({b \in LexBrands : includes(combined, b) /\ ~includes(fromLow, b)})
        + (IF info.fromText # <<>> /\ ~HasEmailLike(info.fromText) THEN 6 ELSE 0)
        + (IF info.fromText # <<>>
              /\ Cardinality({i \in 1..Len(info.fromText) : ~IsSpace(info.fromText[i])}) <= 2
           THEN 12 ELSE 0)
        + ExclamScore(subj)
        + (IF UppercaseHeavy(subj) THEN 18 ELSE 0)
        + (IF HasWord(info.rowText, TokAttachment) \/ HasWord(info.rowText, TokPaperclip)
           THEN 10 ELSE 0)

\* what Math.round adds for a jitter in the half-unit interval h
JitterRound(h) == (h + 1) \div 2

\* computeLocalScore(info) when Math.random() * 4 falls in the interval h
computeLocalScore(info, h) == Min(100, LexSum(info) + JitterRound(h))

\* the half-unit intervals of [0, 4)
JitterIntervals == 0..7

\* how many times one run scores the row
MaxScans == 2

LexSubjects ==
    {<<"U", "R", "G", "E", "N", "T", ":", " ", "V", "e", "r", "i", "f", "y", " ", "y", "o", "u", "r", " ", "a", "c", "c", "o", "u", "n", "t", " ", "i", "m", "m", "e", "d", "i", "a", "t", "e", "l", "y">>,
     <<"M", "e", "e", "t", "i", "n", "g", " ", "n", "o", "t", "e", "s">>,
     <<>>,
     <<"W", "I", "N", " ", "N", "O", "W", "!", "!", "!", "!">>,
     <<"R", "e", ":", " ", "i", "n", "v", "o", "i", "c", "e">>}

LexSnippets ==
    {<<"h", "t", "t", "p", ":", "/", "/", "1", "9", "2", ".", "1", "6", "8", ".", "1", ".", "5", "/", "l", "o", "g", "i", "n">>,
     <<"s", "e", "e", " ", "a", "t", "t", "a", "c", "h", "e", "d">>,
     <<>>,
     <<"g", "o", " ", "t", "o", " ", "(", "h", "t", "t", "p", "s", ":", "/", "/", "s", "h", "o", "p", ".", "x", "y", "z", "/", "a", ")", " ", "o", "r", " ", "H", "T", "T", "P", ":", "/", "/", "x", "n", "-", "-", "p", "p", "l", "e", ".", "r", "u", " ", "n", "o", "w">>}

LexFroms ==
    {<<>>,
     <<"A", "l", "i", "c", "e", " ", "<", "a", "l", "i", "c", "e", "@", "e", "x", "a", "m", "p", "l", "e", ".", "c", "o", "m", ">">>,
     <<"P", "a", "y", "P", "a", "l">>,
     <<"x">>}

LexRows ==
    {<<>>,
     <<"1", " ", "a", "t", "t", "a", "c", "h", "m", "e", "n", "t">>,
     <<"a", "t", "t", "a", "c", "h", "m", "e", "n", "t", "s">>}

\* what extractInfoFromRow returns for the rows tried
LexInfos ==
    [subjectText : LexSubjects, snippetText : LexSnippets,
     fromText : LexFroms, rowText : LexRows]

LexIdle ==
    /\ lexIn = [subjectText |-> <<>>, snippetText |-> <<>>, fromText |-> <<>>, rowText |-> <<>>]
    /\ lexOut = <<>>

LexStart ==
    /\ lexIn \in LexInfos
    /\ lexOut = <<>>

\* one call computeLocalScore(info) on the row (line 119)
LexCall(h) ==
    /\ Len(lexOut) < MaxScans
    /\ lexOut' = Append(lexOut, computeLocalScore(lexIn, h))
    /\ UNCHANGED lexIn

(***************************************************************************)
(* Remote calls that never return (background.js 332-337, 353, 360)        *)
(*                                                                         *)
(* fetch is called without a signal or a timer, in the ML call and in      *)
(* gmailApi: the await of a call that never returns never resumes.         *)
(***************************************************************************)
RemoteCalls == {"ml", "search", "fetch"}

HangIdle == hung = {} /\ storageUp = TRUE

\* the continuations of get_scores after its remote calls, for calls that return
MlSettles(r) == "ml" \notin hung /\ GsMl(r)

SearchSettles(r, outcome) == "search" \notin hung /\ GsFind(r, outcome)

FetchSettles(r, fetched) == "fetch" \notin hung /\ GsFetch(r, fetched)

(***************************************************************************)
(* Specifications                                                          *)
(***************************************************************************)

\* parseAuthResults on each input
ParseNext ==
    \/ ParseCall /\ UNCHANGED <<ledgerVars, cacheVars, handlerVars, ensVars, gateVars, lexVars, hangVars, fbVars>>

ParseInit ==
    /\ ParseStart
    /\ trustedSenders = <<>> /\ ledger0 = <<>> /\ LedgerIdle
    /\ CacheIdle
    /\ HandlerIdle
    /\ EnsembleIdle
    /\ GateIdle
    /\ LexIdle
    /\ HangIdle
    /\ FbIdle

SpecParse == ParseInit /\ [][ParseNext]_vars

\* concurrent addTrustedSenderDomain calls and boost lookups
LedgerNext ==
    \/ \E c \in CallIds, d \in Domains \cup {"null"} :
          RecordSafeStart(c, d) /\ UNCHANGED <<parseVars, cacheVars, handlerVars, ensVars, gateVars, lexVars, hangVars, fbVars>>
    \/ \E c \in CallIds : RecordSafeGet(c) /\ UNCHANGED <<parseVars, cacheVars, handlerVars, ensVars, gateVars, lexVars, hangVars, fbVars>>
    \/ \E c \in CallIds : RecordSafeSet(c) /\ UNCHANGED <<parseVars, cacheVars, handlerVars, ensVars, gateVars, lexVars, hangVars, fbVars>>
    \/ \E d \in Domains \cup {"null"} : BoostLookup(d) /\ UNCHANGED <<parseVars, cacheVars, handlerVars, ensVars, gateVars, lexVars, hangVars, fbVars>>

LedgerInit ==
    /\ LedgerStart
    /\ ParseIdle
    /\ CacheIdle
    /\ HandlerIdle
    /\ EnsembleIdle
    /\ GateIdle
    /\ LexIdle
    /\ HangIdle
    /\ FbIdle

SpecLedger == LedgerInit /\ [][LedgerNext]_vars

\* cacheSet and cacheGet on one cache, for every key, value and ttl, as time passes
CacheNext ==
    \/ Tick /\ UNCHANGED <<parseVars, ledgerVars, handlerVars, ensVars, gateVars, lexVars, hangVars, fbVars>>
    \/ \E k \in CacheKeys, v \in CacheData, ttl \in 0..MaxTtl :
          CacheSetStep(k, v, ttl) /\ UNCHANGED <<parseVars, ledgerVars, handlerVars, ensVars, gateVars, lexVars, hangVars, fbVars>>
    \/ \E k \in CacheKeys : CacheGetStep(k) /\ UNCHANGED <<parseVars, ledgerVars, handlerVars, ensVars, gateVars, lexVars, hangVars, fbVars>>

CacheInit ==
    /\ CacheIdle
    /\ ParseIdle
    /\ trustedSenders = <<>> /\ ledger0 = <<>> /\ LedgerIdle
    /\ HandlerIdle
    /\ EnsembleIdle
    /\ GateIdle
    /\ LexIdle
    /\ HangIdle
    /\ FbIdle

SpecCache == CacheInit /\ [][CacheNext]_vars

\* get_headers and get_scores requests for the row, one after the other, for
\* every message and every stored trust record; no cache entry expires
HandlerOther == <<parseVars, ensVars, gateVars, lexVars, hangVars, fbVars, ledger0, rsCalls, rsFinished, boostDomain, boostOut>>

HandlerNext ==
    \/ StartGetHeaders(1) /\ UNCHANGED HandlerOther
    \/ \E token \in BOOLEAN : GhToken(1, token) /\ UNCHANGED HandlerOther
    \/ \E outcome \in FindOutcomes : GhFind(1, outcome) /\ UNCHANGED HandlerOther
    \/ \E fetched \in BOOLEAN : GhFetch(1, fetched) /\ UNCHANGED HandlerOther
    \/ GhBoost(1) /\ UNCHANGED HandlerOther
    \/ StartGetScores(1) /\ UNCHANGED HandlerOther
    \/ GsMl(1) /\ UNCHANGED HandlerOther
    \/ \E token \in BOOLEAN : GsToken(1, token) /\ UNCHANGED HandlerOther
    \/ \E outcome \in FindOutcomes : GsFind(1, outcome) /\ UNCHANGED HandlerOther
    \/ \E fetched \in BOOLEAN : GsFetch(1, fetched) /\ UNCHANGED HandlerOther
    \/ GsBoost(1) /\ UNCHANGED HandlerOther

TrustInit ==
    /\ mail \in Mails
    /\ mlBackend = [kind |-> "unreachable"]
    /\ payload = [localScore |-> Num(50)]
    /\ reqs = [r \in Slots |-> IdleReq]
    /\ trustedSenders \in Ledgers
    /\ ledger0 = trustedSenders
    /\ LedgerIdle
    /\ CacheIdle
    /\ ParseIdle
    /\ EnsembleIdle
    /\ GateIdle
    /\ LexIdle
    /\ HangIdle
    /\ FbIdle

SpecTrust == TrustInit /\ [][HandlerNext]_vars

\* the same requests for three messages, every answer of the backend and
\* every localScore of the payload
ScoresMails ==
    {m \in Mails : /\ m.auth \in {<<>>, <<1, 4, 7>>, <<3, 5, 8>>}
                   /\ m.displayDomain = "a.example"
                   /\ m.returnPathDomain \in {"b.example", "null"}}

ScoresInit ==
    /\ mail \in ScoresMails
    /\ mlBackend \in MlBackends
    /\ payload \in {[localScore |-> x] : x \in {Undefined} \cup {Num(n) : n \in ScoreSamples}}
    /\ reqs = [r \in Slots |-> IdleReq]
    /\ trustedSenders \in {<<>>, [d \in {"a.example"} |-> MaxCount]}
    /\ ledger0 = trustedSenders
    /\ LedgerIdle
    /\ CacheIdle
    /\ ParseIdle
    /\ EnsembleIdle
    /\ GateIdle
    /\ LexIdle
    /\ HangIdle
    /\ FbIdle

SpecScores == ScoresInit /\ [][HandlerNext]_vars

\* the ensemble on every sampled localScore, ml_score and headerTrust
EnsembleNext ==
    \/ EnsembleCall /\ UNCHANGED <<parseVars, ledgerVars, cacheVars, handlerVars, gateVars, lexVars, hangVars, fbVars>>

EnsembleInit ==
    /\ EnsembleStart
    /\ ParseIdle
    /\ trustedSenders = <<>> /\ ledger0 = <<>> /\ LedgerIdle
    /\ CacheIdle
    /\ HandlerIdle
    /\ GateIdle
    /\ LexIdle
    /\ HangIdle
    /\ FbIdle

SpecEnsemble == EnsembleInit /\ [][EnsembleNext]_vars

\* a click on each protected anchor
GateNext ==
    \/ \E spf \in AuthStatus, dkim \in AuthStatus, dmarc \in AuthStatus :
          ProtectLink(spf, dkim, dmarc)
          /\ UNCHANGED <<parseVars, ledgerVars, cacheVars, handlerVars, ensVars, lexVars, hangVars, fbVars>>
    \/ ClickLink /\ UNCHANGED <<parseVars, ledgerVars, cacheVars, handlerVars, ensVars, lexVars, hangVars, fbVars>>
    \/ ShowPopup /\ UNCHANGED <<parseVars, ledgerVars, cacheVars, handlerVars, ensVars, lexVars, hangVars, fbVars>>

GateInit ==
    /\ GateStart
    /\ ParseIdle
    /\ trustedSenders = <<>> /\ ledger0 = <<>> /\ LedgerIdle
    /\ CacheIdle
    /\ HandlerIdle
    /\ EnsembleIdle
    /\ LexIdle
    /\ HangIdle
    /\ FbIdle

SpecGate == GateInit /\ [][GateNext]_vars

\* the row scored MaxScans times, for every text tried and every jitter
LexNext ==
    \/ \E h \in JitterIntervals :
          LexCall(h) /\ UNCHANGED <<parseVars, ledgerVars, cacheVars, handlerVars, ensVars, gateVars, hangVars, fbVars>>

LexInit ==
    /\ LexStart
    /\ ParseIdle
    /\ trustedSenders = <<>> /\ ledger0 = <<>> /\ LedgerIdle
    /\ CacheIdle
    /\ HandlerIdle
    /\ EnsembleIdle
    /\ GateIdle
    /\ HangIdle
    /\ FbIdle

SpecLex == LexInit /\ [][LexNext]_vars

\* the row of scenario 2 scored, and its link protected and clicked
ScenarioSubject ==
    <<"U", "R", "G", "E", "N", "T", ":", " ", "V", "e", "r", "i", "f", "y", " ", "y", "o", "u", "r", " ", "a", "c", "c", "o", "u", "n", "t", " ", "i", "m", "m", "e", "d", "i", "a", "t", "e", "l", "y">>

ScenarioUrl ==
    <<"h", "t", "t", "p", ":", "/", "/", "1", "9", "2", ".", "1", "6", "8", ".", "1", ".", "5", "/", "l", "o", "g", "i", "n">>

ScenarioNext ==
    \/ \E h \in JitterIntervals :
          LexCall(h) /\ UNCHANGED <<parseVars, ledgerVars, cacheVars, handlerVars, ensVars, gateVars, hangVars, fbVars>>
    \/ \E spf \in AuthStatus, dkim \in AuthStatus, dmarc \in AuthStatus :
          ProtectLink(spf, dkim, dmarc)
          /\ UNCHANGED <<parseVars, ledgerVars, cacheVars, handlerVars, ensVars, lexVars, hangVars, fbVars>>
    \/ ClickLink /\ UNCHANGED <<parseVars, ledgerVars, cacheVars, handlerVars, ensVars, lexVars, hangVars, fbVars>>
    \/ ShowPopup /\ UNCHANGED <<parseVars, ledgerVars, cacheVars, handlerVars, ensVars, lexVars, hangVars, fbVars>>

ScenarioInit ==
    /\ lexIn \in {i \in LexInfos : i.subjectText = ScenarioSubject /\ i.snippetText = ScenarioUrl}
    /\ lexOut = <<>>
    /\ link \in {l \in Links : l.href = ScenarioUrl}
    /\ emailRiskScore = 0
    /\ gatePc = "new"
    /\ clickOut = NoClick
    /\ popup = NoPopup
    /\ ParseIdle
    /\ trustedSenders = <<>> /\ ledger0 = <<>> /\ LedgerIdle
    /\ CacheIdle
    /\ HandlerIdle
    /\ EnsembleIdle
    /\ HangIdle
    /\ FbIdle

SpecScenario == ScenarioInit /\ [][ScenarioNext]_vars

\* get_scores requests while some of the remote calls never return; every
\* continuation whose call has returned is run by the event loop
LiveStart == StartGetScores(1) /\ UNCHANGED HandlerOther
LiveMl == MlSettles(1) /\ UNCHANGED HandlerOther
LiveToken == (\E token \in BOOLEAN : GsToken(1, token)) /\ UNCHANGED HandlerOther
LiveFind == (\E outcome \in FindOutcomes : SearchSettles(1, outcome)) /\ UNCHANGED HandlerOther
LiveFetch == (\E fetched \in BOOLEAN : FetchSettles(1, fetched)) /\ UNCHANGED HandlerOther
LiveBoost == GsBoost(1) /\ UNCHANGED HandlerOther

LiveNext ==
    \/ LiveStart
    \/ LiveMl
    \/ LiveToken
    \/ LiveFind
    \/ LiveFetch
    \/ LiveBoost

LiveInit ==
    /\ mail \in ScoresMails
    /\ mlBackend \in {[kind |-> "unreachable"],
                      [kind |-> "json", json |-> [ml_score |-> Num(80), score |-> Undefined]]}
    /\ payload = [localScore |-> Num(50)]
    /\ reqs = [r \in Slots |-> IdleReq]
    /\ hung \in SUBSET RemoteCalls
    /\ storageUp = TRUE
    /\ trustedSenders = <<>> /\ ledger0 = <<>> /\ LedgerIdle
    /\ CacheIdle
    /\ ParseIdle
    /\ EnsembleIdle
    /\ GateIdle
    /\ LexIdle
    /\ FbIdle

SpecLive ==
    /\ LiveInit
    /\ [][LiveNext]_vars
    /\ WF_vars(LiveMl)
    /\ WF_vars(LiveToken)
    /\ WF_vars(LiveFind)
    /\ WF_vars(LiveFetch)
    /\ WF_vars(LiveBoost)

\* get_headers and get_scores requests while chrome.storage.local may hand
\* no result object to the callbacks of its reads; every remote call returns
\* and every continuation that can run is run by the event loop
StorageHeadersStart == StartGetHeaders(1) /\ UNCHANGED HandlerOther
StorageHeadersToken == (\E token \in BOOLEAN : GhToken(1, token)) /\ UNCHANGED HandlerOther
StorageHeadersFind == (\E outcome \in FindOutcomes : GhFind(1, outcome)) /\ UNCHANGED HandlerOther
StorageHeadersFetch == (\E fetched \in BOOLEAN : GhFetch(1, fetched)) /\ UNCHANGED HandlerOther
StorageHeadersBoost == GhBoost(1) /\ UNCHANGED HandlerOther

StorageNext ==
    \/ StorageHeadersStart
    \/ StorageHeadersToken
    \/ StorageHeadersFind
    \/ StorageHeadersFetch
    \/ StorageHeadersBoost
    \/ LiveStart
    \/ LiveMl
    \/ LiveToken
    \/ LiveFind
    \/ LiveFetch
    \/ LiveBoost

StorageInit ==
    /\ mail \in {m \in Mails : m.auth \in {<<>>, <<1>>}}
    /\ mlBackend = [kind |-> "unreachable"]
    /\ payload = [localScore |-> Num(50)]
    /\ reqs = [r \in Slots |-> IdleReq]
    /\ hung = {}
    /\ storageUp \in BOOLEAN
    /\ trustedSenders \in {<<>>, [d \in {"a.example"} |-> 1]}
    /\ ledger0 = trustedSenders
    /\ LedgerIdle
    /\ CacheIdle
    /\ ParseIdle
    /\ EnsembleIdle
    /\ GateIdle
    /\ LexIdle
    /\ FbIdle

SpecStorage ==
    /\ StorageInit
    /\ [][StorageNext]_vars
    /\ WF_vars(StorageHeadersToken)
    /\ WF_vars(StorageHeadersFind)
    /\ WF_vars(StorageHeadersFetch)
    /\ WF_vars(StorageHeadersBoost)
    /\ WF_vars(LiveMl)
    /\ WF_vars(LiveToken)
    /\ WF_vars(LiveFind)
    /\ WF_vars(LiveFetch)
    /\ WF_vars(LiveBoost)

\* get_headers and get_scores requests for one message while time passes; a
\* request lasts much less than one unit of time, so the clock advances
\* between requests only
AgeTick ==
    /\ \A r \in Slots : reqs[r].pc \in {"idle", "done"}
    /\ Tick
    /\ UNCHANGED <<parseVars, ledgerVars, handlerVars, ensVars, gateVars, lexVars, hangVars, fbVars>>

AgeNext ==
    \/ AgeTick
    \/ StorageHeadersStart
    \/ StorageHeadersToken
    \/ StorageHeadersFind
    \/ StorageHeadersFetch
    \/ StorageHeadersBoost
    \/ LiveStart
    \/ LiveMl
    \/ LiveToken
    \/ LiveFind
    \/ LiveFetch
    \/ LiveBoost

AgeInit ==
    /\ mail = [auth |-> <<1>>, displayDomain |-> "a.example", returnPathDomain |-> "null",
               relayHeaders |-> {}]
    /\ mlBackend = [kind |-> "unreachable"]
    /\ payload = [localScore |-> Num(50)]
    /\ reqs = [r \in Slots |-> IdleReq]
    /\ trustedSenders = <<>> /\ ledger0 = <<>> /\ LedgerIdle
    /\ CacheIdle
    /\ ParseIdle
    /\ EnsembleIdle
    /\ GateIdle
    /\ LexIdle
    /\ HangIdle
    /\ FbIdle

SpecAge == AgeInit /\ [][AgeNext]_vars

\* get_headers and get_scores requests for a message of a.example, and
\* addTrustedSenderDomain calls for that domain, in any interleaving
BoostOther == <<parseVars, cacheVars, handlerVars, ensVars, gateVars, lexVars, hangVars, fbVars>>

BoostRecordStart == (\E c \in CallIds : RecordSafeStart(c, "a.example")) /\ UNCHANGED BoostOther
BoostRecordGet == (\E c \in CallIds : RecordSafeGet(c)) /\ UNCHANGED BoostOther
BoostRecordSet == (\E c \in CallIds : RecordSafeSet(c)) /\ UNCHANGED BoostOther

\* the handler steps with the ledger calls left as they are
BoostHandlerOther == <<parseVars, ensVars, gateVars, lexVars, hangVars, fbVars, ledger0, boostDomain, boostOut>>

BoostHandlers ==
    /\ \/ StartGetHeaders(1)
       \/ \E token \in BOOLEAN : GhToken(1, token)
       \/ \E outcome \in FindOutcomes : GhFind(1, outcome)
       \/ \E fetched \in BOOLEAN : GhFetch(1, fetched)
       \/ GhBoost(1)
       \/ StartGetScores(1)
       \/ GsMl(1)
       \/ \E token \in BOOLEAN : GsToken(1, token)
       \/ \E outcome \in FindOutcomes : GsFind(1, outcome)
       \/ \E fetched \in BOOLEAN : GsFetch(1, fetched)
       \/ GsBoost(1)
    /\ UNCHANGED <<rsCalls, rsFinished>>
    /\ UNCHANGED BoostHandlerOther

BoostNext ==
    \/ BoostRecordStart
    \/ BoostRecordGet
    \/ BoostRecordSet
    \/ BoostHandlers

BoostInit ==
    /\ mail = [auth |-> <<>>, displayDomain |-> "a.example", returnPathDomain |-> "null",
               relayHeaders |-> {}]
    /\ mlBackend = [kind |-> "unreachable"]
    /\ payload = [localScore |-> Num(50)]
    /\ reqs = [r \in Slots |-> IdleReq]
    /\ trustedSenders \in {<<>>, [d \in {"a.example"} |-> 1]}
    /\ ledger0 = trustedSenders
    /\ LedgerIdle
    /\ CacheIdle
    /\ ParseIdle
    /\ EnsembleIdle
    /\ GateIdle
    /\ LexIdle
    /\ HangIdle
    /\ FbIdle

SpecBoost == BoostInit /\ [][BoostNext]_vars

\* two get_headers requests for the same row whose steps interleave
PairStart == (\E r \in Slots : StartGetHeaders(r)) /\ UNCHANGED HandlerOther
PairToken == (\E r \in Slots, token \in BOOLEAN : GhToken(r, token)) /\ UNCHANGED HandlerOther
PairFind == (\E r \in Slots, outcome \in FindOutcomes : GhFind(r, outcome)) /\ UNCHANGED HandlerOther
PairFetch == (\E r \in Slots, fetched \in BOOLEAN : GhFetch(r, fetched)) /\ UNCHANGED HandlerOther
PairBoost == (\E r \in Slots : GhBoost(r)) /\ UNCHANGED HandlerOther

PairNext ==
    \/ PairStart
    \/ PairToken
    \/ PairFind
    \/ PairFetch
    \/ PairBoost

PairInit ==
    /\ mail \in {m \in Mails : m.auth \in {<<>>, <<1>>} /\ m.displayDomain = "a.example"}
    /\ mlBackend = [kind |-> "unreachable"]
    /\ payload = [localScore |-> Num(50)]
    /\ reqs = [r \in Slots |-> IdleReq]
    /\ trustedSenders = <<>> /\ ledger0 = <<>> /\ LedgerIdle
    /\ CacheIdle
    /\ ParseIdle
    /\ EnsembleIdle
    /\ GateIdle
    /\ LexIdle
    /\ HangIdle
    /\ FbIdle

SpecPair == PairInit /\ [][PairNext]_vars

\* feedback messages, their log updates and their addTrustedSenderDomain
\* calls, in any interleaving
FeedbackLabels == {"safe", "unsafe"}

FbOther == <<parseVars, cacheVars, ensVars, gateVars, lexVars, hangVars>>

FbMessage ==
    /\ \E c \in CallIds, label \in FeedbackLabels, dom \in {"a.example", "null"} :
          Feedback(1, c, label, dom)
    /\ UNCHANGED <<parseVars, ensVars, gateVars, lexVars, hangVars>>
FbGet ==
    /\ \E c \in CallIds : FeedbackGet(c)
    /\ UNCHANGED <<FbOther, ledgerVars, handlerVars>>
FbSet ==
    /\ \E c \in CallIds : FeedbackSet(c)
    /\ UNCHANGED <<FbOther, ledgerVars, handlerVars>>
FbRecordGet ==
    /\ \E c \in CallIds : RecordSafeGet(c)
    /\ UNCHANGED <<FbOther, handlerVars, fbVars>>
FbRecordSet ==
    /\ \E c \in CallIds : RecordSafeSet(c)
    /\ UNCHANGED <<FbOther, handlerVars, fbVars>>

FbNext ==
    \/ FbMessage
    \/ FbGet
    \/ FbSet
    \/ FbRecordGet
    \/ FbRecordSet

FbInit ==
    /\ FbIdle
    /\ trustedSenders \in {<<>>, [d \in {"a.example"} |-> 1]}
    /\ ledger0 = trustedSenders
    /\ LedgerIdle
    /\ HandlerIdle
    /\ CacheIdle
    /\ ParseIdle
    /\ EnsembleIdle
    /\ GateIdle
    /\ LexIdle
    /\ HangIdle

SpecFeedback == FbInit /\ [][FbNext]_vars

\* every kind of message, one at a time, with the storage callbacks of
\* earlier feedback still to run; every remote call returns, the storage may
\* hand no result object to the callbacks of its reads, and every continuation
\* that can run is run by the event loop
MessageUntyped ==
    (\E type \in {"missing", "unknown"} : StartUntyped(1, type)) /\ UNCHANGED HandlerOther
MessageAuth == StartInteractiveAuth(1) /\ UNCHANGED HandlerOther
MessageAuthToken == (\E token \in BOOLEAN : IaToken(1, token)) /\ UNCHANGED HandlerOther

MessageNext ==
    \/ MessageUntyped
    \/ MessageAuth
    \/ MessageAuthToken
    \/ FbMessage
    \/ FbGet
    \/ FbSet
    \/ FbRecordGet
    \/ FbRecordSet
    \/ StorageHeadersStart
    \/ StorageHeadersToken
    \/ StorageHeadersFind
    \/ StorageHeadersFetch
    \/ StorageHeadersBoost
    \/ LiveStart
    \/ LiveMl
    \/ LiveToken
    \/ LiveFind
    \/ LiveFetch
    \/ LiveBoost

MessageInit ==
    /\ mail = [auth |-> <<1>>, displayDomain |-> "a.example", returnPathDomain |-> "null",
               relayHeaders |-> {}]
    /\ mlBackend = [kind |-> "unreachable"]
    /\ payload = [localScore |-> Num(50)]
    /\ reqs = [r \in Slots |-> IdleReq]
    /\ hung = {}
    /\ storageUp \in BOOLEAN
    /\ FbIdle
    /\ trustedSenders = <<>> /\ ledger0 = <<>> /\ LedgerIdle
    /\ CacheIdle
    /\ ParseIdle
    /\ EnsembleIdle
    /\ GateIdle
    /\ LexIdle

SpecMessages ==
    /\ MessageInit
    /\ [][MessageNext]_vars
    /\ WF_vars(MessageAuthToken)
    /\ WF_vars(FbGet)
    /\ WF_vars(FbSet)
    /\ WF_vars(FbRecordGet)
    /\ WF_vars(FbRecordSet)
    /\ WF_vars(StorageHeadersToken)
    /\ WF_vars(StorageHeadersFind)
    /\ WF_vars(StorageHeadersFetch)
    /\ WF_vars(StorageHeadersBoost)
    /\ WF_vars(LiveMl)
    /\ WF_vars(LiveToken)
    /\ WF_vars(LiveFind)
    /\ WF_vars(LiveFetch)
    /\ WF_vars(LiveBoost)

(***************************************************************************)
(* Properties                                                              *)
(***************************************************************************)

InRange(x) == x \in 0..100

\* C6: for integer localScore, ml_score and headerTrust in [0,100] the final
\* score of the ensemble is non-decreasing in localScore, non-decreasing in
\* ml_score and non-increasing in headerTrust, the other two held fixed.
C6_EnsembleMonotone ==
    (ensPc = "done" /\ ensIn.ml_score.t = "number") =>
        /\ \A l \in ScoreSamples :
              l >= ensIn.localScore =>
                  FinalScore(l, ensIn.ml_score, ensIn.headerTrust).v >= ensOut.final_score.v
        /\ \A m \in ScoreSamples :
              m >= ensIn.ml_score.v =>
                  FinalScore(ensIn.localScore, Num(m), ensIn.headerTrust).v >= ensOut.final_score.v
        /\ \A h \in ScoreSamples :
              h >= ensIn.headerTrust =>
                  FinalScore(ensIn.localScore, ensIn.ml_score, h).v <= ensOut.final_score.v

\* clamp to [0,100] of round(0.25*local + 0.50*m + 0.20*(100 - headerTrust))
SpecifiedFinal(local, m, headerTrust) ==
    Max(0, Min(100, (25 * local + 50 * m + 20 * (100 - headerTrust) + 50) \div 100))

\* C7: the final score is the clamp to [0,100] of
\* round(0.25*local + 0.50*m + 0.20*(100 - headerTrust)), m being ml_score when
\* it is available and local when it is not; it is an integer in [0,100].
C7_EnsembleFormula ==
    ensPc = "done" =>
        /\ ensOut.final_score.t = "number"
        /\ InRange(ensOut.final_score.v)
        /\ ensOut.final_score.v =
              SpecifiedFinal(ensIn.localScore,
                             IF ensIn.ml_score.t = "number" THEN ensIn.ml_score.v
                             ELSE ensIn.localScore,
                             ensIn.headerTrust)

\* C8: every get_scores request is answered with ok = true and a final_score
\* in [0,100], whatever the backend answers and whether or not the token, the
\* message search and the header fetch fail.
C8_ScoresTotal ==
    \A r \in Slots :
        (reqs[r].type = "get_scores" /\ reqs[r].pc = "done") =>
            /\ reqs[r].response.kind = "scores"
            /\ reqs[r].response.ok
            /\ reqs[r].response.final_score.t = "number"
            /\ InRange(reqs[r].response.final_score.v)

\* C1: the header trust of get_headers and of get_scores is an integer in
\* [0,100] after each step of its computation (verdict points and clamp,
\* envelope mismatch, relay, history boost), in the response, and in the
\* cached result, for every combination of verdicts, envelope mismatch, relay
\* and stored count.
C1_TrustInRange ==
    /\ \A r \in Slots :
          /\ InRange(reqs[r].trust)
          /\ \A i \in DOMAIN reqs[r].steps : InRange(reqs[r].steps[i])
          /\ reqs[r].response.kind = "headers" => InRange(reqs[r].response.data.trustBoost)
          /\ reqs[r].response.kind = "scores" => InRange(reqs[r].response.headerTrust)
    /\ \A k \in DOMAIN HEADER_CACHE : InRange(HEADER_CACHE[k].data.trustBoost)
    /\ \A k \in DOMAIN QUERY_CACHE : InRange(QUERY_CACHE[k].data.trustBoost)

\* C1 witness: get_scores computed the trust of a message with three failed
\* verdicts, a relay header and an envelope mismatch, from a sender marked safe
\* five times or more: 0 after the clamp, 20, 0 after the second clamp, then 25
C1_Witness ==
    /\ reqs[1].type = "get_scores"
    /\ reqs[1].pc = "done"
    /\ TrustPoints(reqs[1].parsed) < 0
    /\ reqs[1].steps = <<0, 20, 0, 25>>
    /\ reqs[1].response.headerTrust = 25

NoCallInFlight == \A c \in CallIds : rsCalls[c].pc \in {"idle", "done"}

\* C2: a domain that has a trust record never loses it and its count never
\* decreases, in any interleaving of the storage reads and writes of the
\* addTrustedSenderDomain calls (so its boost never decreases).
C2_CountNeverDecreases ==
    [][\A d \in Domains : Count(trustedSenders', d) >= Count(trustedSenders, d)]_vars

\* C3: once the addTrustedSenderDomain calls have all finished their storage
\* write, the stored count of each domain is its count at the start plus the
\* number of calls made for it: each call increments by exactly one.
C3_EachCallCounts ==
    NoCallInFlight =>
        \A d \in Domains : Count(trustedSenders, d) = Count(ledger0, d) + rsFinished[d]

\* the boost the ledger is specified to give for a count
ExpectedBoost(count) ==
    CASE count = 0 -> 0
      [] count = 1 -> 5
      [] count = 2 -> 10
      [] count = 3 -> 15
      [] count = 4 -> 20
      [] OTHER -> 25

\* C4: getTrustedSenderBoost resolves to 0 for an absent domain or a domain
\* without a record, and otherwise to 5, 10, 15, 20 for the counts 1..4 and to
\* 25 for every count from 5 on.
C4_BoostIsCappedMultiple ==
    [][\A d \in Domains \cup {"null"} :
          BoostLookup(d) =>
              boostOut' = ExpectedBoost(IF d = "null" THEN 0 ELSE Count(trustedSenders, d))]_vars

\* C4 witness: a lookup answered 25 for a domain whose count is above 5 after a
\* call incremented it
C4_Witness ==
    /\ boostDomain \in Domains
    /\ boostOut = 25
    /\ NoCallInFlight
    /\ rsFinished[boostDomain] >= 1
    /\ Count(trustedSenders, boostDomain) > 5

\* what a lookup of key k must return, from the last cacheSet of k: the value
\* while the age is at most the ttl, absent after (and absent when never set)
ExpectedGet(k) ==
    IF k \notin DOMAIN lastSet THEN [hit |-> FALSE]
    ELSE IF now - lastSet[k].ts <= lastSet[k].ttl
         THEN [hit |-> TRUE, data |-> lastSet[k].data]
         ELSE [hit |-> FALSE]

\* C5: after cacheSet(key, value, ttl) with a positive ttl and no later set of
\* that key, cacheGet(key) returns the value while the elapsed time is at most
\* ttl and absent once it exceeds ttl; a cacheGet that finds the entry expired
\* deletes it; an entry leaves the map only on such a lookup and changes only
\* on a cacheSet of its key.
C5_CacheTtl ==
    [][\A k \in CacheKeys :
          /\ (CacheGetStep(k) /\ (k \in DOMAIN lastSet => lastSet[k].ttl > 0))
                => getOut'.result = ExpectedGet(k)
          /\ (CacheGetStep(k) /\ k \in DOMAIN HEADER_CACHE /\ Expired(HEADER_CACHE[k]))
                => k \notin DOMAIN HEADER_CACHE'
          /\ (k \in DOMAIN HEADER_CACHE /\ k \notin DOMAIN HEADER_CACHE')
                => (CacheGetStep(k) /\ Expired(HEADER_CACHE[k]))
          /\ (k \in DOMAIN HEADER_CACHE /\ k \in DOMAIN HEADER_CACHE'
                /\ HEADER_CACHE'[k] # HEADER_CACHE[k])
                => \E v \in CacheData, ttl \in 0..MaxTtl : CacheSetStep(k, v, ttl)]_vars

\* C5 witness: a lookup at an age above the positive ttl answered absent and
\* the entry is gone, while another key, whose age equals its ttl, is still held
C5_Witness ==
    /\ getOut.key = "k1"
    /\ getOut.at = now
    /\ ~getOut.result.hit
    /\ "k1" \in DOMAIN lastSet
    /\ lastSet["k1"].ttl > 0
    /\ now - lastSet["k1"].ts > lastSet["k1"].ttl
    /\ "k1" \notin DOMAIN HEADER_CACHE
    /\ "k2" \in DOMAIN HEADER_CACHE
    /\ HEADER_CACHE["k2"].ttl > 0
    /\ now - HEADER_CACHE["k2"].ts = HEADER_CACHE["k2"].ttl

\* the tokens that occur in the header made of the words ws, case ignored
HeaderTokens(ws) == UNION {AuthVocab[ws[i]].tokens : i \in 1..Len(ws)}

ExpectedVerdict(ws, proto) ==
    IF <<proto, "pass">> \in HeaderTokens(ws) THEN "pass"
    ELSE IF <<proto, "fail">> \in HeaderTokens(ws) THEN "fail"
    ELSE "null"

\* C9: parseAuthResults answers for every input; for a non-empty string each
\* protocol is pass when its pass token occurs (case ignored), fail when its
\* fail token occurs and its pass token does not, unknown (null) when neither
\* occurs, independently of the other protocols, and raw is the input; for a
\* null, undefined, non-string or empty input all three are unknown and raw is
\* the empty string.
C9_ParseAuthResults ==
    parsePc = "done" =>
        IF authHeader.kind = "string" /\ authHeader.chars # <<>>
        THEN /\ parsedOut.spf = ExpectedVerdict(authWords, "spf")
             /\ parsedOut.dkim = ExpectedVerdict(authWords, "dkim")
             /\ parsedOut.dmarc = ExpectedVerdict(authWords, "dmarc")
             /\ parsedOut.raw = authHeader.chars
        ELSE parsedOut = [spf |-> "null", dkim |-> "null", dmarc |-> "null", raw |-> <<>>]

\* C9 witness: "spf=pass dkim=fail" parsed to spf pass, dkim fail, dmarc unknown
C9_Witness ==
    /\ parsePc = "done"
    /\ authHeader = JsString(TokSpfPass \o <<" ">> \o TokDkimFail)
    /\ parsedOut.spf = "pass"
    /\ parsedOut.dkim = "fail"
    /\ parsedOut.dmarc = "null"

\* the tier the policy gives a score: above 70, above 40 up to 70, up to 40
PolicyTier(score) ==
    CASE score > 70 -> "high"
      [] score > 40 /\ score <= 70 -> "medium"
      [] score <= 40 -> "low"

\* C10: once a click on a link whose URL matches no suspicious pattern has been
\* decided, the click went through unhindered exactly when the risk score
\* the gate used is at most 40 (a score above 40 warns, a score above 70
\* blocks), and the tier a popup displays for its score follows the same two
\* thresholds, 40 and 70.
C10_GateThresholds ==
    (gatePc \in {"navigated", "popup", "shown"} /\ ~clickOut.urlSuspicious) =>
        /\ (~clickOut.intercepted) <=> (clickOut.combinedRisk <= 40)
        /\ gatePc = "shown" => popup.tier = PolicyTier(popup.quickRisk)

\* C11: once a click on a link whose URL isSuspiciousUrl flags has been
\* decided, the click was intercepted and the navigation did not go through,
\* whatever the risk numbers are.
C11_FlagForcesIntercept ==
    (gatePc \in {"navigated", "popup", "shown"} /\ isSuspiciousUrl(link.href)) =>
        /\ clickOut.urlSuspicious
        /\ clickOut.intercepted
        /\ gatePc # "navigated"

\* a flagged link with URL risk 0 and email risk 0 was clicked, and the popup is up
C11_Witness ==
    /\ gatePc = "shown"
    /\ isSuspiciousUrl(link.href)
    /\ clickOut.urlRisk = 0
    /\ emailRiskScore = 0
    /\ clickOut.combinedRisk = 0
    /\ clickOut.intercepted

\* C12: the scores that successive calls of computeLocalScore return for one
\* and the same (sender, subject, snippet, row) input are all equal.
C12_SameInputSameScore ==
    \A i, j \in DOMAIN lexOut : lexOut[i] = lexOut[j]

\* C14: for the subject and the snippet of scenario 2, every score
\* computeLocalScore returns is above 70 at every jitter, the link risk of
\* the snippet's URL is above 70, and a click on that URL is intercepted,
\* the popup showing the high tier.
C14_ScenarioBlocks ==
    /\ \A i \in DOMAIN lexOut : lexOut[i] > 70
    /\ gatePc \in {"navigated", "popup", "shown"} =>
          /\ clickOut.urlRisk > 70
          /\ clickOut.intercepted
          /\ gatePc # "navigated"
    /\ gatePc = "shown" => popup.quickRisk > 70 /\ popup.tier = "high"

\* the row with nothing but that subject and snippet was scored at the least
\* and at the greatest jitter, and the link, outside any risky mail, was
\* clicked and the popup shown
C14_Witness ==
    /\ lexIn.subjectText = ScenarioSubject
    /\ lexIn.snippetText = ScenarioUrl
    /\ lexIn.fromText = <<>>
    /\ lexIn.rowText = <<>>
    /\ Len(lexOut) = MaxScans
    /\ link.href = ScenarioUrl
    /\ emailRiskScore = 0
    /\ gatePc = "shown"
    /\ clickOut.intercepted

\* the message has failed SPF, DKIM and DMARC and its Return-Path domain differs
\* from its From domain; it came through no relay and its sender has no record
AllFailMismatch ==
    /\ parseAuthResults(AuthRaw(mail)).spf = "fail"
    /\ parseAuthResults(AuthRaw(mail)).dkim = "fail"
    /\ parseAuthResults(AuthRaw(mail)).dmarc = "fail"
    /\ EnvelopeMismatch(mail)
    /\ ~detectGoogleRelay(mail)
    /\ ledger0 = <<>>

\* C13: when get_scores has answered for a message with three failed verdicts
\* and an envelope mismatch, having computed the header trust or read it from
\* the header cache, the header trust it reports is 0 and its final score is
\* the one the ensemble gives with a header suspicion of 100.
C13_AllFailSuspicion ==
    \A r \in Slots :
        (/\ reqs[r].type = "get_scores"
         /\ reqs[r].pc = "done"
         /\ reqs[r].trustFrom \in {"fresh", "cached"}
         /\ AllFailMismatch) =>
            /\ reqs[r].response.headerTrust = 0
            /\ reqs[r].response.final_score =
                  Num(SpecifiedFinal(reqs[r].response.localScore,
                                     reqs[r].response.ml_score.v, 0))

\* C15: every response of get_headers is a successful result, or a failure
\* whose tag is no_token or no_message, also when the message search or the
\* metadata fetch fails with an error.
C15_HeadersFailureTags ==
    \A r \in Slots :
        (reqs[r].type = "get_headers" /\ reqs[r].pc = "done") =>
            \/ reqs[r].response.kind = "headers" /\ reqs[r].response.ok
            \/ /\ reqs[r].response.kind = "error"
               /\ ~reqs[r].response.ok
               /\ reqs[r].response.error \in {"no_token", "no_message"}

\* C16: a get_scores request that has been started is eventually answered,
\* also in the runs in which the ML call, the message search or the header
\* fetch never returns.
C16_ScoresEventuallyAnswered ==
    (reqs[1].type = "get_scores" /\ reqs[1].pc # "done") ~> (reqs[1].pc = "done")

\* C17: a get_scores request whose ML call failed and that found no token or
\* no message answers with headerTrust 50, with ml_score equal to the local
\* score, and with final_score = clamp to [0,100] of round(0.75*local + 10).
MlCallFailed == mlBackend.kind \in {"unreachable", "notjson"}

LocalOnlyFinal(local) == Max(0, Min(100, (75 * local + 1000 + 50) \div 100))

C17_LocalOnlyFallback ==
    \A r \in Slots :
        (/\ reqs[r].type = "get_scores" /\ reqs[r].pc = "done"
         /\ MlCallFailed
         /\ reqs[r].trustFrom \in {"no_token", "no_message"}) =>
            /\ reqs[r].response.localScore = LocalScoreOf(payload)
            /\ reqs[r].response.headerTrust = 50
            /\ reqs[r].response.ml_score = Num(reqs[r].response.localScore)
            /\ reqs[r].response.final_score = Num(LocalOnlyFinal(reqs[r].response.localScore))

C17_Witness ==
    /\ reqs[1].type = "get_scores" /\ reqs[1].pc = "done"
    /\ MlCallFailed
    /\ reqs[1].trustFrom = "no_message"
    /\ reqs[1].response.localScore = 100
    /\ reqs[1].response.final_score = Num(85)

\* C18: a request of either kind that computed the trust of the message from
\* its headers ends with the value both orders of steps give for the message
\* and the stored record (that of get_headers and that of get_scores), and the
\* header cache holds that value under the message id.
LedgerBoost == getTrustedSenderBoostValue(trustedSenders, SenderDomain(mail))

C18_BothPathsSameTrust ==
    \A r \in Slots :
        (reqs[r].pc = "done" /\ Len(reqs[r].steps) = 4) =>
            /\ reqs[r].steps[4] = AddHistoryBoost(GetHeadersTrustSteps(mail)[3], LedgerBoost)
            /\ reqs[r].steps[4] = AddHistoryBoost(GetScoresTrustSteps(mail)[3], LedgerBoost)
            /\ MsgId \in DOMAIN HEADER_CACHE
            /\ HEADER_CACHE[MsgId].data.trustBoost = reqs[r].steps[4]

\* C19: every successful get_headers response, whether computed or served
\* from the query cache or the header cache and whatever requests came before,
\* carries the envelope-mismatch flag and the relay flag of its message.
C19_FlagsInEveryHeadersResponse ==
    \A r \in Slots :
        (/\ reqs[r].type = "get_headers" /\ reqs[r].pc = "done"
         /\ reqs[r].response.kind = "headers") =>
            /\ {"envelopeMismatch", "googleRelay"} \subseteq DOMAIN reqs[r].response.data
            /\ reqs[r].response.data.envelopeMismatch = EnvelopeMismatch(mail)
            /\ reqs[r].response.data.googleRelay = detectGoogleRelay(mail)

\* C20: a get_scores request has no ensemble result while its header step is
\* still running, and its response is the ensemble of the headerTrust that
\* step ended with: the cached trust, the trust computed from the headers
\* and the ledger, or 50 when the step ended without a value.
HeaderStepResult(r) ==
    CASE reqs[r].trustFrom = "fresh" ->
             AddHistoryBoost(GetScoresTrustSteps(mail)[3], LedgerBoost)
      [] reqs[r].trustFrom = "cached" ->
             (IF HEADER_CACHE[MsgId].data.trustBoost # 0
              THEN HEADER_CACHE[MsgId].data.trustBoost ELSE 50)
      [] OTHER -> 50

C20_EnsembleAfterHeaderStep ==
    \A r \in Slots :
        reqs[r].type = "get_scores" =>
            /\ reqs[r].pc # "done" =>
                   /\ reqs[r].response = NoResponse
                   /\ reqs[r].trustFrom = "neutral"
            /\ reqs[r].pc = "done" =>
                   /\ reqs[r].trustFrom # "neutral"
                   /\ reqs[r].response.headerTrust = HeaderStepResult(r)
                   /\ reqs[r].response.final_score =
                          FinalScore(reqs[r].response.localScore, reqs[r].response.ml_score,
                                     HeaderStepResult(r))

C20_Witness ==
    /\ reqs[1].type = "get_scores" /\ reqs[1].pc = "done"
    /\ reqs[1].trustFrom = "fresh"
    /\ reqs[1].response.headerTrust \notin {50, GetScoresTrustSteps(mail)[3]}

\* C21: a get_headers or get_scores request that waits for the ledger boost
\* is eventually answered, also when the storage read behind the boost hands
\* back no result object.
C21_BoostWaitEnds ==
    (reqs[1].pc \in {"gh_boost", "gs_boost"}) ~> (reqs[1].pc = "done")

\* C22: every score computeLocalScore returns is an integer of 0..100 equal to
\* min(100, S + d), where S >= 0 is the sum of the contributions of the row,
\* d in 0..4 is what rounding adds for a jitter of [0, 4), and the exclamation
\* marks of the subject contribute min(12, 4 * marks) to S.
SubjectMarks == Cardinality({i \in 1..Len(lexIn.subjectText) : lexIn.subjectText[i] = "!"})

C22_LocalScoreShape ==
    LET S == LexSum(lexIn) IN
    /\ S >= 0
    /\ ExclamScore(trim(lexIn.subjectText)) = Min(12, 4 * SubjectMarks)
    /\ \A i \in DOMAIN lexOut :
        /\ lexOut[i] \in 0..100
        /\ \E d \in 0..4 : lexOut[i] = Min(100, S + d)

C22_Witness ==
    /\ SubjectMarks = 4
    /\ \E i \in DOMAIN lexOut : lexOut[i] = LexSum(lexIn) + 4 /\ lexOut[i] < 100
    /\ \E i \in DOMAIN lexOut : lexOut[i] = LexSum(lexIn)

\* C23: the link risk a click computes is min(100, T), T being the sum of:
\* 70 for a tunnel-hosting domain, 80 for a dotted quad, 90 for 'verify'
\* together with one of the brand tokens, 50 for a credential or reset keyword,
\* 30 for http://, and 60 for each brand token without its '.brand.' form;
\* it lies in 0..100.
SpecifiedLinkRisk(url) ==
    Min(100,
        (IF includes(url, TokNgrokFreeApp) \/ includes(url, TokNgrokIo) THEN 70 ELSE 0)
        + (IF HasDottedQuad(url) THEN 80 ELSE 0)
        + (IF includes(url, TokVerify) /\ \E b \in LinkBrands : includes(url, b)
           THEN 90 ELSE 0)
        + (IF includes(url, TokLogin) \/ includes(url, TokReset) \/ includes(url, TokForgot)
           THEN 50 ELSE 0)
        + (IF includes(url, TokHttp) THEN 30 ELSE 0)
        + 60 * Cardinality({b \in LinkBrands : includes(url, b) /\ ~includes(url, Dotted(b))}))

C23_LinkRiskFormula ==
    gatePc \in {"navigated", "popup", "shown"} =>
        /\ clickOut.urlRisk \in 0..100
        /\ clickOut.urlRisk = SpecifiedLinkRisk(link.href)

\* C24: whenever get_headers answers with a result, the headers the result
\* was computed from were fetched at most CACHE_TTL_MS before the answer,
\* whether the result is computed or comes from the query cache or the header
\* cache.
C24_ResultNotOlderThanTtl ==
    [][\A r \in Slots :
          (/\ StartGetHeaders(r) \/ (\E outcome \in FindOutcomes : GhFind(r, outcome)) \/ GhBoost(r)
           /\ reqs'[r].pc = "done"
           /\ reqs'[r].response.kind = "headers")
              => now - reqs'[r].response.data.fetchedAt <= CACHE_TTL_MS]_vars

\* C25: once an addTrustedSenderDomain call for the sender's domain has done
\* its storage write and no other is under way, every get_headers or
\* get_scores answer that carries a trust for the message carries the trust
\* with the boost of the stored count, whatever was answered before the write.
LedgerWritten ==
    /\ rsFinished[SenderDomain(mail)] >= 1
    /\ \A c \in CallIds : rsCalls[c].pc \in {"idle", "done"}

AnsweredTrust(req) ==
    IF req.type = "get_headers" THEN req.response.data.trustBoost
    ELSE req.response.headerTrust

C25_TrustFollowsLedger ==
    [][\A r \in Slots :
          (/\ LedgerWritten
           /\ reqs'[r] # reqs[r]
           /\ reqs'[r].pc = "done"
           /\ \/ reqs'[r].type = "get_headers" /\ reqs'[r].response.kind = "headers"
              \/ reqs'[r].type = "get_scores" /\ reqs'[r].trustFrom \in {"cached", "fresh"})
              => AnsweredTrust(reqs'[r])
                    = AddHistoryBoost(GetHeadersTrustSteps(mail)[3], LedgerBoost)]_vars

\* C26: of the get_headers requests for one row that are under way together,
\* at most one has issued the metadata fetch: never are two of them past the
\* message search with a fetch of their own, pending or just returned.
C26_OneFetchInFlight ==
    ~(\A r \in Slots : reqs[r].type = "get_headers" /\ reqs[r].pc \in {"gh_fetch", "gh_boost"})

\* C27: when the backend answers ml_score 0, the response reports ml_score 0
\* and its final_score is the ensemble with 0 as the ML term.
C27_ZeroIsAScore ==
    \A r \in Slots :
        (/\ reqs[r].type = "get_scores" /\ reqs[r].pc = "done"
         /\ mlBackend.kind = "json" /\ mlBackend.json.ml_score = Num(0)) =>
            /\ reqs[r].response.ml_score = Num(0)
            /\ reqs[r].response.final_score =
                   FinalScore(reqs[r].response.localScore, Num(0), reqs[r].response.headerTrust)

\* C28: for a string that holds both the pass token and the fail token of a
\* protocol, parseAuthResults does not report that protocol as pass.
C28_ConflictIsNotPass ==
    (parsePc = "done" /\ authHeader.kind = "string") =>
        \A proto \in {"spf", "dkim", "dmarc"} :
            ({<<proto, "pass">>, <<proto, "fail">>} \subseteq HeaderTokens(authWords))
                => parsedOut[proto] # "pass"

\* C30: once every feedback message received has done its storage write, the
\* log holds exactly one entry for each of them.
FeedbackReceived == {c \in CallIds : fbCalls[c].pc # "idle"}

C30_LogKeepsEveryEntry ==
    (\A c \in FeedbackReceived : fbCalls[c].pc = "done") =>
        /\ Len(phishFeedback) = Cardinality(FeedbackReceived)
        /\ \A c \in FeedbackReceived : \E i \in DOMAIN phishFeedback : phishFeedback[i] = c

\* C29: the handler never calls sendResponse twice for a message, and every
\* message whose handling has begun is answered exactly once, whatever its
\* type and also when an exception is thrown while it is handled.
C29_ExactlyOneResponse ==
    /\ [](\A r \in Slots : reqs[r].sent <= 1)
    /\ (reqs[1].pc \notin {"idle", "done"}) ~> (reqs[1].pc = "done" /\ reqs[1].sent = 1)

====
